---------------------------- MODULE Spec2Model ----------------------------
(***************************************************************************)
(* A model of the hwapi lookup caches: the identifier parsers, the PCI-ID, *)
(* USB-ID and bugcheck database parsers with their caches, and the CPU     *)
(* identity resolver.                                                      *)
(*                                                                         *)
(* Text is a sequence of characters, each character a one-character        *)
(* string; the two non-ASCII characters of the CPU catalogs are the        *)
(* elements "tm" and "reg".  An Option is a sequence of length 0 (None) or *)
(* 1 (Some).  A parser result is a record [kind, rest, out] whose kind is  *)
(* "Ok", "Err" (the Err of a Result) or "Panic" (an unwrap that aborts).   *)
(***************************************************************************)
EXTENDS Integers, Sequences, FiniteSets, TLC

VARIABLES
    id_input,      \* identifier parsers: the string under test
    pci_ident,     \* identifier parsers: result of the PCI parser, or NotRun
    usb_ident,     \* identifier parsers: result of the USB parser, or NotRun
    pci_text,      \* PCI: the text of the PCI-ID database (FILE_INPUT)
    pci_lines,     \* PCI: the records written into pci_text, as a tree
    pcie_cache,    \* PCI: PcieCache: [state, vendors]
    pcie_input,    \* PCI: argument of the last find
    pcie_result,   \* PCI: result of the last find, or NotRun
    usb_text,      \* USB: the text of the USB-ID database (INPUT_FILE)
    usb_lines,     \* USB: the records written into usb_text, as a tree
    usb_cache,     \* USB: UsbCache: [state, vendors]
    usb_input,     \* USB: argument of the last find
    usb_result,    \* USB: result of the last find, or NotRun
    bug_text,      \* bugcheck: the text of the Markdown table (FILE_INPUT)
    bug_rows,      \* bugcheck: the rows written into bug_text
    bug_cache,     \* bugcheck: CodeCache: [state, codes]
    bug_code,      \* bugcheck: argument of the last get
    bug_result,    \* bugcheck: result of the last get, or NotRun
    cpu_cache,     \* CPU: CpuCache: [state, intel_cpus, intel_index, amd_cpus, amd_index]
    cpu_input,     \* CPU: argument of the last find
    cpu_result,    \* CPU: result of the last find, or NotRun
    cpu_calls,     \* CPU: the find calls made on one cache, in order: [input, result]
    cpu_callers,   \* CPU: the requests in flight: for every caller [pc, input, state, result]
    model_input,   \* CPU: a name given to find_model and generate_index_entry
    model_found,   \* CPU: find_model's best fit after its loop and its return value, or NotRun
    model_entry,   \* CPU: the result of generate_index_entry, or NotRun
    pci_fault,     \* PCI: the level and kind of the malformed line of the text, if any
    record_input,  \* bugcheck: the parts of the table row handed to read_record
    record_result, \* bugcheck: the result of read_record, or NotRun
    csv_names,     \* Intel CSV: the cpu names of the file, in the order of its columns
    csv_text,      \* Intel CSV: the text of the file
    csv_sections,  \* Intel CSV: the sections written, each with its rows and whether a blank line ends it
    csv_section,   \* Intel CSV: the section read_section was given and its result, or NotRun
    csv_lexed,     \* Intel CSV: the result of lex_csv, or NotRun
    csv_parsed,    \* Intel CSV: the result of parse_csv, or NotRun
    csv_loaded,    \* Intel CSV: the result of get_intel_cpus, or NotRun
    loop_name,     \* loops: the loop under way, one of the loops of the database parsers
    loop_input,    \* loops: the input the loop was entered with
    loop_rest,     \* loops: the input the next pass through the loop reads
    loop_done,     \* loops: the loop has been left
    loop_passes    \* loops: the passes made through the loop

identVars == <<id_input, pci_ident, usb_ident>>
pcieVars == <<pci_text, pci_lines, pcie_cache, pcie_input, pcie_result>>
usbVars == <<usb_text, usb_lines, usb_cache, usb_input, usb_result>>
bugVars == <<bug_text, bug_rows, bug_cache, bug_code, bug_result>>
cpuVars == <<cpu_cache, cpu_input, cpu_result>>
callsVars == <<cpu_calls, cpu_callers>>
modelVars == <<model_input, model_found, model_entry>>
faultVars == <<pci_fault>>
recordVars == <<record_input, record_result>>
csvVars == <<csv_names, csv_text, csv_sections, csv_section, csv_lexed, csv_parsed, csv_loaded>>
loopVars == <<loop_name, loop_input, loop_rest, loop_done, loop_passes>>
vars == <<identVars, pcieVars, usbVars, bugVars, cpuVars, callsVars, modelVars, faultVars, recordVars, csvVars, loopVars>>

\* what the operations of one component leave alone
notIdentVars == <<pcieVars, usbVars, bugVars, cpuVars, callsVars, modelVars, faultVars, recordVars, csvVars, loopVars>>
notPcieVars == <<identVars, usbVars, bugVars, cpuVars, callsVars, modelVars, faultVars, recordVars, csvVars, loopVars>>
notUsbVars == <<identVars, pcieVars, bugVars, cpuVars, callsVars, modelVars, faultVars, recordVars, csvVars, loopVars>>
notBugVars == <<identVars, pcieVars, usbVars, cpuVars, callsVars, modelVars, faultVars, recordVars, csvVars, loopVars>>
notCpuVars == <<identVars, pcieVars, usbVars, bugVars, callsVars, modelVars, faultVars, recordVars, csvVars, loopVars>>
notCallsVars == <<identVars, pcieVars, usbVars, bugVars, cpu_input, cpu_result, modelVars, faultVars, recordVars, csvVars, loopVars>>
notModelVars == <<identVars, pcieVars, usbVars, bugVars, cpuVars, callsVars, faultVars, recordVars, csvVars, loopVars>>
notPcieFaultVars == <<identVars, usbVars, bugVars, cpuVars, callsVars, modelVars, recordVars, csvVars, loopVars>>
notRecordVars == <<identVars, pcieVars, usbVars, bugVars, cpuVars, callsVars, modelVars, faultVars, csvVars, loopVars>>
notCsvVars == <<identVars, pcieVars, usbVars, bugVars, cpuVars, callsVars, modelVars, faultVars, recordVars, loopVars>>
notLoopVars == <<identVars, pcieVars, usbVars, bugVars, cpuVars, callsVars, modelVars, faultVars, recordVars, csvVars>>

-----------------------------------------------------------------------------
(* Options and results *)

None == <<>>
Some(x) == <<x>>
IsSome(o) == Len(o) = 1
Unwrap(o) == o[1]

NotRun == [kind |-> "NotRun", rest |-> <<>>, out |-> <<>>]
Err == [kind |-> "Err", rest |-> <<>>, out |-> <<>>]
ErrWith(message) == [kind |-> "Err", rest |-> <<>>, out |-> message]
Panic == [kind |-> "Panic", rest |-> <<>>, out |-> <<>>]
Ok(rest, out) == [kind |-> "Ok", rest |-> rest, out |-> out]
IsOk(r) == r.kind = "Ok"

-----------------------------------------------------------------------------
(* Strings *)

Take(s, n) == SubSeq(s, 1, n)
Drop(s, n) == SubSeq(s, n + 1, Len(s))
StartsWith(s, t) == Len(s) >= Len(t) /\ Take(s, Len(t)) = t

\* The least index at which t occurs in s, 0 when it does not occur.
Find(s, t) ==
    LET hits == {i \in 1..(Len(s) - Len(t) + 1) : SubSeq(s, i, i + Len(t) - 1) = t}
    IN IF hits = {} THEN 0 ELSE CHOOSE i \in hits : \A j \in hits : i <= j
Contains(s, t) == Find(s, t) # 0

-----------------------------------------------------------------------------
(* nom combinators, complete variants *)

\* tag(t): the input must start with t
Tag(t, input) == IF StartsWith(input, t) THEN Ok(Drop(input, Len(t)), t) ELSE Err
\* char(c): a tag of one character
Char(c, input) == Tag(<<c>>, input)
\* take(n): the first n characters, an error when there are fewer
TakeN(n, input) == IF Len(input) >= n THEN Ok(Drop(input, n), Take(input, n)) ELSE Err
\* take_until(t): everything before the first occurrence of t, which stays
\* in the rest; an error when t does not occur
TakeUntil(t, input) ==
    LET i == Find(input, t)
    IN IF i = 0 THEN Err ELSE Ok(Drop(input, i - 1), Take(input, i - 1))
\* the sequencing of two results: second runs on the rest of first
Then(first, second(_)) == IF IsOk(first) THEN second(first.rest) ELSE first
\* a result with its output replaced
WithOut(result, out) == IF IsOk(result) THEN Ok(result.rest, out) ELSE result
\* preceded(first, second): the output of second
Preceded(first(_), second(_), input) == Then(first(input), second)
\* terminated(first, second): the output of first
KeepFirst(a, second(_)) == IF IsOk(a) THEN WithOut(second(a.rest), a.out) ELSE a
Terminated(first(_), second(_), input) == KeepFirst(first(input), second)
\* delimited(first, second, third): the output of second
Delimited(first(_), second(_), third(_), input) ==
    Terminated(LAMBDA i : Preceded(first, second, i), third, input)
\* two parsers in a row: the output is the pair of their outputs
PairOut(out, b) == IF IsOk(b) THEN Ok(b.rest, <<out, b.out>>) ELSE b
KeepBoth(a, second(_)) == IF IsOk(a) THEN PairOut(a.out, second(a.rest)) ELSE a
Pair(first(_), second(_), input) == KeepBoth(first(input), second)

-----------------------------------------------------------------------------
(* u16::from_str_radix(src, 16) and u64::from_str_radix(src, 16) *)

DigitsLower == <<"0", "1", "2", "3", "4", "5", "6", "7", "8", "9", "a", "b", "c", "d", "e", "f">>
DigitsUpper == <<"0", "1", "2", "3", "4", "5", "6", "7", "8", "9", "A", "B", "C", "D", "E", "F">>
IsHexDigit(c) == \E i \in 1..16 : DigitsLower[i] = c \/ DigitsUpper[i] = c
HexDigitValue(c) == (CHOOSE i \in 1..16 : DigitsLower[i] = c \/ DigitsUpper[i] = c) - 1

RECURSIVE HexValue(_)
HexValue(digits) ==
    IF digits = <<>> THEN 0
    ELSE 16 * HexValue(Take(digits, Len(digits) - 1)) + HexDigitValue(digits[Len(digits)])

\* None stands for the ParseIntError.  An unsigned type accepts a leading
\* '+' and takes a leading '-' for an invalid digit.
FromStrRadix16(src) ==
    IF src = <<>> THEN None
    ELSE IF src[1] = "+" /\ Len(src) = 1 THEN None
    ELSE LET digits == IF src[1] = "+" THEN Tail(src) ELSE src
         IN IF \A i \in 1..Len(digits) : IsHexDigit(digits[i])
            THEN Some(HexValue(digits))
            ELSE None

\* A record is built from the fields of its line, out = <<id text, name>>:
\* the id is unwrapped only after every combinator has succeeded.
WithId(fields, Build(_, _)) == Build(fields, FromStrRadix16(fields.out[1]))
\* The same for a record with a block of lines under it, read by Loop from
\* the rest of the line before the id is unwrapped.
WithBlock(fields, Loop(_), Build(_, _, _)) ==
    IF ~IsOk(fields) THEN Err
    ELSE Build(fields, Loop(fields.rest), FromStrRadix16(fields.out[1]))

-----------------------------------------------------------------------------
(* Identifier parsers *)

\* pcie::parse_device_identifier, vid_combinator and did_combinator: out is
\* <<vid, did>>
PcieIdFields(input) ==
    Pair(LAMBDA i : Delimited(LAMBDA j : Tag(<<"P", "C", "I", "\\", "V", "E", "N", "_">>, j),
                              LAMBDA j : TakeN(4, j),
                              LAMBDA j : Char("&", j), i),
         LAMBDA i : Preceded(LAMBDA j : Tag(<<"D", "E", "V", "_">>, j),
                             LAMBDA j : TakeN(4, j), i),
         input)

\* ssid_combinator reading the second four characters after SUBSYS_ (the
\* sub-vendor id) instead of the first four
PcieSsidLowHalf(rest) ==
    IF StartsWith(rest, <<"&", "S", "U">>)
    THEN Preceded(LAMBDA i : Preceded(LAMBDA j : Tag(<<"&", "S", "U", "B", "S", "Y", "S", "_">>, j),
                                      LAMBDA j : TakeN(4, j), i),
                  LAMBDA i : TakeN(4, i), rest)
    ELSE Ok(rest, None)
\* pcie::parse_device_identifier, ssid: out is the four characters after
\* SUBSYS_, or None when the rest does not start with "&SU"
PcieSsid(rest) ==
    IF StartsWith(rest, <<"&", "S", "U">>)
    THEN Preceded(LAMBDA i : Tag(<<"&", "S", "U", "B", "S", "Y", "S", "_">>, i),
                  LAMBDA i : TakeN(4, i), rest)
    ELSE Ok(rest, None)

\* pcie::parse_device_identifier, the tuple returned: the three unwraps
PcieIdentifierOf(vid, did, ssid) ==
    IF ~IsOk(ssid) THEN Err
    ELSE IF ~IsSome(vid) \/ ~IsSome(did) THEN Panic
    ELSE IF ssid.out = None THEN Ok(<<>>, <<Unwrap(vid), Unwrap(did), None>>)
    ELSE IF ~IsSome(FromStrRadix16(ssid.out)) THEN Panic
    ELSE Ok(<<>>, <<Unwrap(vid), Unwrap(did), FromStrRadix16(ssid.out)>>)
PcieIdentifierFrom(fields) ==
    IF ~IsOk(fields) THEN Err
    ELSE PcieIdentifierOf(FromStrRadix16(fields.out[1]), FromStrRadix16(fields.out[2]),
                          PcieSsid(fields.rest))
\* pcie::parse_device_identifier
PcieParseDeviceIdentifier(input) == PcieIdentifierFrom(PcieIdFields(input))

\* vid_combinator and pid_combinator with a parser that wants the end of the
\* input after the product id
UsbIdFieldsToTheEnd(device_string) ==
    Pair(LAMBDA i : Delimited(LAMBDA j : Tag(<<"U", "S", "B", "\\", "V", "I", "D", "_">>, j),
                              LAMBDA j : TakeN(4, j),
                              LAMBDA j : TakeN(1, j), i),
         LAMBDA i : Terminated(LAMBDA j : Preceded(LAMBDA k : Tag(<<"P", "I", "D", "_">>, k),
                                                   LAMBDA k : TakeN(4, k), j),
                               LAMBDA j : IF j = <<>> THEN Ok(j, j) ELSE Err, i),
         device_string)
\* usb::parse_device_identifier, vid_combinator and pid_combinator: out is
\* <<vid, pid>>
UsbIdFields(device_string) ==
    Pair(LAMBDA i : Delimited(LAMBDA j : Tag(<<"U", "S", "B", "\\", "V", "I", "D", "_">>, j),
                              LAMBDA j : TakeN(4, j),
                              LAMBDA j : TakeN(1, j), i),
         LAMBDA i : Preceded(LAMBDA j : Tag(<<"P", "I", "D", "_">>, j),
                             LAMBDA j : TakeN(4, j), i),
         device_string)
\* usb::parse_device_identifier, the tuple returned: the two unwraps
UsbIdentifierOf(fields, vid, pid) ==
    IF ~IsOk(fields) THEN Err
    ELSE IF ~IsSome(vid) \/ ~IsSome(pid) THEN Panic
    ELSE Ok(<<>>, <<Unwrap(vid), Unwrap(pid)>>)
UsbIdentifierFrom(fields) ==
    UsbIdentifierOf(fields, FromStrRadix16(fields.out[1]), FromStrRadix16(fields.out[2]))
\* usb::parse_device_identifier
UsbParseDeviceIdentifier(device_string) == UsbIdentifierFrom(UsbIdFields(device_string))

-----------------------------------------------------------------------------
(* Collections *)

\* HashMap: a function with a finite domain
EmptyMap == [k \in {} |-> k]
MapInsert(m, key, value) ==
    [k \in (DOMAIN m) \cup {key} |-> IF k = key THEN value ELSE m[k]]
MapGet(m, key) == IF key \in DOMAIN m THEN Some(m[key]) ELSE None

\* Iterator::find, and filter(..).nth(0): the first element that satisfies P
FirstWhere(seq, P(_)) ==
    LET hits == {i \in 1..Len(seq) : P(seq[i])}
    IN IF hits = {} THEN None
       ELSE Some(seq[CHOOSE i \in hits : \A j \in hits : i <= j])

-----------------------------------------------------------------------------
(* The PCI-ID database parser *)

\* preceded(take_until("\n"), char('\n')): the rest after the end of the line
SkipLine(input) ==
    Preceded(LAMBDA i : TakeUntil(<<"\n">>, i), LAMBDA i : Char("\n", i), input)
\* terminated(take_until("\n"), char('\n')): the line without its newline
ReadLine(input) ==
    Terminated(LAMBDA i : TakeUntil(<<"\n">>, i), LAMBDA i : Char("\n", i), input)
\* terminated(take(4), tag("  ")): an id and the two spaces after it
ReadId(input) ==
    Terminated(LAMBDA i : TakeN(4, i), LAMBDA i : Tag(<<" ", " ">>, i), input)

\* pcie::read_header
PcieReadHeader(input) == TakeUntil(<<"0", "0", "0", "1", " ">>, input)

\* pcie::read_subsystem_line, the combinators: out is <<ssid, name>>
SubsystemFields(input) ==
    Preceded(LAMBDA i : Delimited(LAMBDA j : Tag(<<"\t", "\t">>, j),
                                  LAMBDA j : TakeN(4, j),
                                  LAMBDA j : Char(" ", j), i),
             LAMBDA i : Pair(ReadId, ReadLine, i),
             input)
\* pcie::read_subsystem_line, the Subsystem built from the fields
SubsystemOf(fields, id) ==
    IF ~IsOk(fields) THEN Err
    ELSE IF ~IsSome(id) THEN Panic
    ELSE Ok(fields.rest, [id |-> Unwrap(id), name |-> fields.out[2]])
\* pcie::read_subsystem_line
ReadSubsystemLine(input) == WithId(SubsystemFields(input), SubsystemOf)

\* the loop of pcie::read_device.  iterated_output is always the result of
\* read_subsystem_line on leftover.
RECURSIVE ReadDeviceLoop(_, _)
\* the loop of read_device leaving at a comment line instead of skipping it
ReadDeviceStepStopsAtComment(iterated_output, leftover, subsystems) ==
    IF iterated_output.kind = "Panic" THEN Panic
    ELSE IF IsOk(iterated_output)
    THEN ReadDeviceLoop(iterated_output.rest, Append(subsystems, iterated_output.out))
    ELSE Ok(leftover, subsystems)
ReadDeviceStep(iterated_output, leftover, subsystems) ==
    IF iterated_output.kind = "Panic" THEN Panic
    ELSE IF IsOk(iterated_output)
    THEN ReadDeviceLoop(iterated_output.rest, Append(subsystems, iterated_output.out))
    ELSE IF StartsWith(leftover, <<"#">>)
    THEN Then(SkipLine(leftover), LAMBDA rest : ReadDeviceLoop(rest, subsystems))
    ELSE Ok(leftover, subsystems)
ReadDeviceLoop(leftover, subsystems) ==
    ReadDeviceStep(ReadSubsystemLine(leftover), leftover, subsystems)

\* pcie::read_device, the combinators: out is <<did, name>>
DeviceFields(input) ==
    Pair(LAMBDA i : Preceded(LAMBDA j : Char("\t", j), LAMBDA j : TakeN(4, j), i),
         LAMBDA i : Preceded(LAMBDA j : Tag(<<" ", " ">>, j), ReadLine, i),
         input)
\* pcie::read_device, the Device built from its line and its subsystems
DeviceOf(fields, looped, id) ==
    IF ~IsOk(looped) THEN looped
    ELSE IF ~IsSome(id) THEN Panic
    ELSE Ok(looped.rest,
            [id |-> Unwrap(id), name |-> fields.out[2], subsystems |-> looped.out])
\* pcie::read_device
ReadDevice(input) ==
    WithBlock(DeviceFields(input), LAMBDA rest : ReadDeviceLoop(rest, <<>>), DeviceOf)

\* the loop of pcie::read_vendor.  iterated_output is always the result of
\* read_device on leftover.
RECURSIVE ReadVendorLoop(_, _)
ReadVendorStep(iterated_output, leftover, devices) ==
    IF iterated_output.kind = "Panic" THEN Panic
    ELSE IF IsOk(iterated_output)
    THEN ReadVendorLoop(iterated_output.rest,
                        MapInsert(devices, iterated_output.out.id, iterated_output.out))
    ELSE IF StartsWith(leftover, <<"#">>)
    THEN Then(SkipLine(leftover), LAMBDA rest : ReadVendorLoop(rest, devices))
    ELSE Ok(leftover, devices)
ReadVendorLoop(leftover, devices) ==
    ReadVendorStep(ReadDevice(leftover), leftover, devices)

\* pcie::read_vendor, the combinators: out is <<vid, name>>
VendorFields(input) == Pair(ReadId, ReadLine, input)
\* pcie::read_vendor, the Vendor built from its line and its devices
VendorOf(fields, looped, id) ==
    IF ~IsOk(looped) THEN looped
    ELSE IF ~IsSome(id) THEN Panic
    ELSE Ok(looped.rest,
            [id |-> Unwrap(id), name |-> fields.out[2], devices |-> looped.out])
\* pcie::read_vendor
ReadVendor(input) ==
    WithBlock(VendorFields(input), LAMBDA rest : ReadVendorLoop(rest, EmptyMap), VendorOf)

\* the loop of pcie::parse_pcie_db: vendors are read until read_vendor fails
RECURSIVE ParsePcieDbLoop(_, _)
ParsePcieDbStep(iterated_output, output) ==
    IF iterated_output.kind = "Panic" THEN Panic
    ELSE IF IsOk(iterated_output)
    THEN ParsePcieDbLoop(iterated_output.rest, Append(output, iterated_output.out))
    ELSE Ok(<<>>, output)
ParsePcieDbLoop(input, output) == ParsePcieDbStep(ReadVendor(input), output)

\* pcie::parse_pcie_db
ParsePcieDb(file_input) ==
    Then(PcieReadHeader(file_input), LAMBDA rest : ParsePcieDbLoop(rest, <<>>))

-----------------------------------------------------------------------------
(* PcieCache *)

NoCache == [state |-> "none", vendors |-> EmptyMap]

RECURSIVE InsertVendors(_, _)
InsertVendors(vendors, list) ==
    IF list = <<>> THEN vendors
    ELSE InsertVendors(MapInsert(vendors, Head(list).id, Head(list)), Tail(list))

\* PcieCache::new, given the result of parse_pcie_db: the unwrap aborts when
\* the database does not parse
PcieCacheOf(parsed) ==
    IF IsOk(parsed)
    THEN [state |-> "built", vendors |-> InsertVendors(EmptyMap, parsed.out)]
    ELSE [state |-> "panic", vendors |-> EmptyMap]
\* PcieCache::new
PcieCacheNew(file_input) == PcieCacheOf(ParsePcieDb(file_input))

\* the subsystem looked up under the subsystem id of the identifier
PcieFindSubsystemBySubsystemId(device, id) ==
    IF IsSome(device)
    THEN FirstWhere(Unwrap(device).subsystems, LAMBDA sub : Some(sub.id) = id[3])
    ELSE None
\* PcieCache::find, the search for the subsystem of a device that was found
PcieFindSubsystem(device, id) ==
    IF IsSome(device)
    THEN FirstWhere(Unwrap(device).subsystems, LAMBDA sub : sub.id = id[2])
    ELSE None
\* the device looked up under the vendor id instead of the device id
PcieFindDeviceByVendorId(vendor, id) ==
    IF IsSome(vendor) THEN MapGet(Unwrap(vendor).devices, id[1]) ELSE None
\* PcieCache::find, the search for the device of a vendor that was found
PcieFindDevice(vendor, id) ==
    IF IsSome(vendor) THEN MapGet(Unwrap(vendor).devices, id[2]) ELSE None
\* PcieCache::find, the tuple returned
PcieDeviceInfo(vendor, device, id) ==
    Ok(<<>>, <<vendor, device, PcieFindSubsystem(device, id)>>)
\* PcieCache::find, after the identifier was parsed
PcieLookup(self, parsed_identifier) ==
    IF ~IsOk(parsed_identifier) THEN parsed_identifier
    ELSE PcieDeviceInfo(MapGet(self.vendors, parsed_identifier.out[1]),
                        PcieFindDevice(MapGet(self.vendors, parsed_identifier.out[1]),
                                       parsed_identifier.out),
                        parsed_identifier.out)
\* PcieCache::find
PcieCacheFind(self, input) == PcieLookup(self, PcieParseDeviceIdentifier(input))

-----------------------------------------------------------------------------
(* The USB-ID database parser *)

\* usb::read_header
UsbReadHeader(input) == TakeUntil(<<"0", "0", "0", "1">>, input)

\* usb::read_device_line, the line between the tab and the newline
UsbDeviceLine(input) ==
    Delimited(LAMBDA i : Char("\t", i), LAMBDA i : TakeUntil(<<"\n">>, i),
              LAMBDA i : Char("\n", i), input)
\* usb::read_device_line, the fields of the line: the id, then two more
\* characters; what is left of the line (the rest) is the name
UsbDeviceFields(line) == Pair(LAMBDA i : TakeN(4, i), LAMBDA i : TakeN(2, i), line)
\* usb::read_device_line, the Device built from the fields
UsbDeviceOf(combinator_output, fields, id) ==
    IF ~IsOk(fields) THEN Err
    ELSE IF ~IsSome(id) THEN Panic
    ELSE Ok(combinator_output.rest, [id |-> Unwrap(id), name |-> fields.rest])
UsbDeviceWith(combinator_output, fields) ==
    UsbDeviceOf(combinator_output, fields, FromStrRadix16(fields.out[1]))
UsbDeviceFrom(combinator_output) ==
    IF ~IsOk(combinator_output) THEN Err
    ELSE UsbDeviceWith(combinator_output, UsbDeviceFields(combinator_output.out))
\* usb::read_device_line
UsbReadDeviceLine(input) == UsbDeviceFrom(UsbDeviceLine(input))

\* the loop of usb::read_vendor.  iterated_output is always the result of
\* read_device_line on leftover; a comment is skipped up to the next tab.
RECURSIVE UsbReadVendorLoop(_, _)
UsbReadVendorStep(iterated_output, leftover, devices) ==
    IF iterated_output.kind = "Panic" THEN Panic
    ELSE IF IsOk(iterated_output)
    THEN UsbReadVendorLoop(iterated_output.rest, Append(devices, iterated_output.out))
    ELSE IF StartsWith(leftover, <<"#">>)
    THEN Then(TakeUntil(<<"\t">>, leftover),
              LAMBDA rest : UsbReadVendorLoop(rest, devices))
    ELSE Ok(leftover, devices)
UsbReadVendorLoop(leftover, devices) ==
    UsbReadVendorStep(UsbReadDeviceLine(leftover), leftover, devices)

\* usb::read_vendor, the combinators: out is <<vid, name>>
UsbVendorFields(input) ==
    Pair(LAMBDA i : TakeN(4, i),
         LAMBDA i : Preceded(LAMBDA j : Tag(<<" ", " ">>, j), ReadLine, i),
         input)
\* usb::read_vendor, the Vendor built from its line and its devices
UsbVendorOf(fields, looped, id) ==
    IF ~IsOk(looped) THEN looped
    ELSE IF ~IsSome(id) THEN Panic
    ELSE Ok(looped.rest,
            [id |-> Unwrap(id), name |-> fields.out[2], devices |-> looped.out])
\* usb::read_vendor
UsbReadVendor(input) ==
    WithBlock(UsbVendorFields(input), LAMBDA rest : UsbReadVendorLoop(rest, <<>>),
              UsbVendorOf)

\* the loop of usb::parse_usb_db: vendors are read until read_vendor fails
RECURSIVE ParseUsbDbLoop(_, _)
ParseUsbDbStep(iterated_output, output) ==
    IF iterated_output.kind = "Panic" THEN Panic
    ELSE IF IsOk(iterated_output)
    THEN ParseUsbDbLoop(iterated_output.rest, Append(output, iterated_output.out))
    ELSE Ok(<<>>, output)
ParseUsbDbLoop(input, output) == ParseUsbDbStep(UsbReadVendor(input), output)

\* usb::parse_usb_db: the unwrap aborts when the header is not found
ParseUsbDb(file_as_str) ==
    Then(UsbReadHeader(file_as_str), LAMBDA rest : ParseUsbDbLoop(rest, <<>>))

-----------------------------------------------------------------------------
(* UsbCache *)

NoUsbCache == [state |-> "none", vendors |-> <<>>]

\* UsbCache::new, given the result of parse_usb_db
UsbCacheOf(parsed) ==
    IF IsOk(parsed) THEN [state |-> "built", vendors |-> parsed.out]
    ELSE [state |-> "panic", vendors |-> <<>>]
\* UsbCache::new
UsbCacheNew(file_as_str) == UsbCacheOf(ParseUsbDb(file_as_str))

\* UsbCache::find, the search for the device of a vendor that was found
UsbFindDevice(matching_vendor, id) ==
    IF IsSome(matching_vendor)
    THEN FirstWhere(Unwrap(matching_vendor).devices, LAMBDA dev : dev.id = id[2])
    ELSE None
\* UsbCache::find, the tuple returned
UsbDeviceInfo(matching_vendor, id) ==
    Ok(<<>>, <<matching_vendor, UsbFindDevice(matching_vendor, id)>>)
\* UsbCache::find, after the identifier was parsed
UsbLookup(self, parsed_identifier) ==
    IF ~IsOk(parsed_identifier) THEN parsed_identifier
    ELSE UsbDeviceInfo(FirstWhere(self.vendors,
                                  LAMBDA ven : ven.id = parsed_identifier.out[1]),
                       parsed_identifier.out)
\* UsbCache::find
UsbCacheFind(self, input) == UsbLookup(self, UsbParseDeviceIdentifier(input))

-----------------------------------------------------------------------------
(* The bugcheck table parser *)

\* str::replace: every occurrence of from, left to right, becomes to
RECURSIVE Replace(_, _, _)
ReplaceAt(s, i, from, to) ==
    IF i = 0 THEN s
    ELSE Take(s, i - 1) \o to \o Replace(Drop(s, i - 1 + Len(from)), from, to)
Replace(s, from, to) == ReplaceAt(s, Find(s, from), from, to)

\* the prefix of every documentation link, kept as one element of the text
DocsBase == <<"https://learn.microsoft.com/en-us/windows-hardware/drivers/debugger/">>

\* bugcheck::read_header
BugReadHeader(input) == TakeUntil(<<"|", " ", "0", "x", "0", "0", "0">>, input)

\* parse_md_link, name_combinator and file_combinator: out is <<name, file>>
MdLinkFields(input) ==
    Pair(LAMBDA i : Delimited(LAMBDA j : Tag(<<"[", "*", "*">>, j),
                              LAMBDA j : TakeUntil(<<"*", "*", "]">>, j),
                              LAMBDA j : Tag(<<"*", "*", "]">>, j), i),
         LAMBDA i : Delimited(LAMBDA j : Tag(<<"(">>, j),
                              LAMBDA j : TakeUntil(<<".", "m", "d", ")">>, j),
                              LAMBDA j : Tag(<<".", "m", "d", ")">>, j), i),
         input)
\* parse_md_link, had it kept the backslashes of the name
MdLinkKeepsBackslashes(fields) ==
    IF ~IsOk(fields) THEN Err
    ELSE Ok(fields.rest, <<fields.out[1],
                           DocsBase \o Replace(fields.out[2], <<".", "m", "d", ")">>, <<>>)>>)
\* parse_md_link, the pair returned: the name without backslashes, the url
MdLinkOf(fields) ==
    IF ~IsOk(fields) THEN Err
    ELSE Ok(fields.rest, <<Replace(fields.out[1], <<"\\">>, <<>>),
                           DocsBase \o Replace(fields.out[2], <<".", "m", "d", ")">>, <<>>)>>)
\* bugcheck::parse_md_link
ParseMdLink(input) == MdLinkOf(MdLinkFields(input))

\* read_record, cleanup_combinator
RecordCleanup(input) ==
    Terminated(LAMBDA i : TakeUntil(<<"|", "\n">>, i), LAMBDA i : Tag(<<"|", "\n">>, i), input)
\* read_record, the three combinators: out is <<code text, <<name, url>>>>
RecordFields(input) ==
    Pair(LAMBDA i : Delimited(LAMBDA j : Tag(<<"|", " ">>, j),
                              LAMBDA j : TakeN(10, j),
                              LAMBDA j : Tag(<<" ", "|", " ">>, j), i),
         LAMBDA i : Terminated(ParseMdLink, RecordCleanup, i),
         input)
\* read_record, the Code returned: the code is unwrapped once the three
\* combinators have succeeded
CodeOf(fields, code) ==
    IF ~IsOk(fields) THEN Err
    ELSE IF ~IsSome(code) THEN Panic
    ELSE Ok(fields.rest, [code |-> Unwrap(code), name |-> fields.out[2][1],
                          url |-> fields.out[2][2]])
CodeFrom(fields) ==
    CodeOf(fields, FromStrRadix16(Replace(fields.out[1], <<"0", "x">>, <<>>)))
\* bugcheck::read_record
ReadRecord(input) == CodeFrom(RecordFields(input))

-----------------------------------------------------------------------------
(* CodeCache *)

NoCodeCache == [state |-> "none", codes |-> EmptyMap]

\* CodeCache::new, the while-let loop over the records
RECURSIVE CodeCacheLoop(_, _)
CodeCacheLoop(parser_output, codes) ==
    IF parser_output.kind = "Panic" THEN [state |-> "panic", codes |-> EmptyMap]
    ELSE IF IsOk(parser_output)
    THEN CodeCacheLoop(ReadRecord(parser_output.rest),
                       MapInsert(codes, parser_output.out.code,
                                 <<parser_output.out.name, parser_output.out.url>>))
    ELSE [state |-> "built", codes |-> codes]
\* CodeCache::new, from the unwrap of read_header on
CodeCacheFrom(header) ==
    IF ~IsOk(header) THEN [state |-> "panic", codes |-> EmptyMap]
    ELSE CodeCacheLoop(ReadRecord(header.rest), EmptyMap)
\* CodeCache::new
CodeCacheNew(file_input) == CodeCacheFrom(BugReadHeader(file_input))
\* CodeCache::get
CodeCacheGet(self, code) == MapGet(self.codes, code)

-----------------------------------------------------------------------------
(* The CPU identity resolver *)

\* str::len, the length in bytes of the UTF-8 encoding
RECURSIVE ByteLen(_)
ByteLen(s) ==
    IF s = <<>> THEN 0
    ELSE (IF s[1] = "tm" THEN 3 ELSE IF s[1] = "reg" THEN 2 ELSE 1) + ByteLen(Tail(s))

\* str::split(' '): the pieces between the spaces, empty pieces included
RECURSIVE Split(_)
SplitAt(s, i) == IF i = 0 THEN <<s>> ELSE <<Take(s, i - 1)>> \o Split(Drop(s, i))
Split(s) == SplitAt(s, Find(s, <<" ">>))

IsAsciiDigit(c) == c \in {"0", "1", "2", "3", "4", "5", "6", "7", "8", "9"}

\* calculate_model_score
RECURSIVE CalculateModelScore(_)
CalculateModelScore(token) ==
    IF token = <<>> THEN 0
    ELSE (IF IsAsciiDigit(token[1]) THEN 2 ELSE 0)
         + (IF token[1] \in {".", "(", ")"} THEN -4 ELSE 0)
         + CalculateModelScore(Tail(token))

\* find_model, the loop over the tokens: a later token replaces the best fit
\* only with a strictly higher score
RECURSIVE BestFit(_, _, _)
BestFitStep(tokens, score, best_fit, high_score) ==
    IF score > high_score THEN BestFit(Tail(tokens), Head(tokens), score)
    ELSE BestFit(Tail(tokens), best_fit, high_score)
BestFit(tokens, best_fit, high_score) ==
    IF tokens = <<>> THEN best_fit
    ELSE BestFitStep(tokens, CalculateModelScore(Head(tokens)), best_fit, high_score)

\* find_model, i_tag: the first token of two bytes that starts with 'i'
ITag(input) ==
    FirstWhere(Split(input), LAMBDA t : ByteLen(t) = 2 /\ t[1] = "i")

\* the edge cases with the one of the PRO line-up tried first
FindModelFromProFirst(input, best_fit, i_tag) ==
    IF Contains(input, <<"A", "M", "D">>) /\ Contains(input, <<"P", "R", "O">>)
    THEN <<"P", "R", "O", " ">> \o best_fit
    ELSE IF Contains(input, <<"I", "n", "t", "e", "l">>) /\ StartsWith(best_fit, <<"1", "4">>) /\ IsSome(i_tag)
    THEN Unwrap(i_tag) \o <<"-">> \o best_fit
    ELSE IF Contains(input, <<"I", "n", "t", "e", "l">>) /\ Contains(input, <<" ", "M", " ">>)
            /\ ByteLen(best_fit) = 3 /\ IsSome(i_tag)
    THEN Unwrap(i_tag) \o <<"-">> \o best_fit \o <<"M">>
    ELSE best_fit
\* the edge cases without the one of the PRO line-up
FindModelFromWithoutPro(input, best_fit, i_tag) ==
    IF Contains(input, <<"I", "n", "t", "e", "l">>) /\ StartsWith(best_fit, <<"1", "4">>) /\ IsSome(i_tag)
    THEN Unwrap(i_tag) \o <<"-">> \o best_fit
    ELSE IF Contains(input, <<"I", "n", "t", "e", "l">>) /\ Contains(input, <<" ", "M", " ">>)
            /\ ByteLen(best_fit) = 3 /\ IsSome(i_tag)
    THEN Unwrap(i_tag) \o <<"-">> \o best_fit \o <<"M">>
    ELSE best_fit
\* the edge cases without the one of the M processors
FindModelFromWithoutM(input, best_fit, i_tag) ==
    IF Contains(input, <<"I", "n", "t", "e", "l">>) /\ StartsWith(best_fit, <<"1", "4">>) /\ IsSome(i_tag)
    THEN Unwrap(i_tag) \o <<"-">> \o best_fit
    ELSE IF Contains(input, <<"A", "M", "D">>) /\ Contains(input, <<"P", "R", "O">>)
    THEN <<"P", "R", "O", " ">> \o best_fit
    ELSE best_fit
\* find_model, the three edge cases on the best fit
FindModelFrom(input, best_fit, i_tag) ==
    IF Contains(input, <<"I", "n", "t", "e", "l">>) /\ StartsWith(best_fit, <<"1", "4">>) /\ IsSome(i_tag)
    THEN Unwrap(i_tag) \o <<"-">> \o best_fit
    ELSE IF Contains(input, <<"A", "M", "D">>) /\ Contains(input, <<"P", "R", "O">>)
    THEN <<"P", "R", "O", " ">> \o best_fit
    ELSE IF Contains(input, <<"I", "n", "t", "e", "l">>) /\ Contains(input, <<" ", "M", " ">>)
            /\ ByteLen(best_fit) = 3 /\ IsSome(i_tag)
    THEN Unwrap(i_tag) \o <<"-">> \o best_fit \o <<"M">>
    ELSE best_fit
\* find_model
FindModel(input) == FindModelFrom(input, BestFit(Split(input), <<>>, -10), ITag(input))

\* take_while(is_ascii_digit): the leading digits; never an error
RECURSIVE DigitCount(_)
DigitCount(s) ==
    IF s # <<>> /\ IsAsciiDigit(s[1]) THEN 1 + DigitCount(Tail(s)) ELSE 0
TakeWhileDigit(input) == TakeN(DigitCount(input), input)

\* generate_index_entry, prefix_combinator: the token from its first '-' on
\* as the rest and the text before it as the output, or an empty rest and
\* the whole token
PrefixCombinator(model_token, taken) ==
    IF IsOk(taken) THEN taken ELSE Ok(<<>>, model_token)
\* generate_index_entry, tags: the tokens of the name but the blacklist
TagsOf(name) ==
    {Split(name)[i] : i \in 1..Len(Split(name))}
        \ {<<"I", "n", "t", "e", "l">>, <<"A", "M", "D">>, <<"P", "r", "o", "c", "e", "s", "s", "o", "r">>, name}
\* generate_index_entry, the entry returned: model is the rest of
\* model_combinator, prefix the rest of prefix_combinator, suffix the output
\* of model_combinator
IndexEntryOf(name, index, prefix_combinator, model_combinator) ==
    IF ~IsOk(model_combinator)
    THEN ErrWith("index generation failed")
    ELSE Ok(<<>>, [model |-> model_combinator.rest, prefix |-> prefix_combinator.rest,
                   suffix |-> model_combinator.out, tags |-> TagsOf(name),
                   index |-> index])
IndexEntryFrom(name, index, prefix_combinator) ==
    IndexEntryOf(name, index, prefix_combinator, TakeWhileDigit(prefix_combinator.out))
IndexEntryFor(name, index, model_token) ==
    IndexEntryFrom(name, index,
                   PrefixCombinator(model_token, TakeUntil(<<"-">>, model_token)))
\* generate_index_entry
GenerateIndexEntry(name, index) == IndexEntryFor(name, index, FindModel(name))

-----------------------------------------------------------------------------
(* CpuCache *)

NoCpuCache ==
    [state |-> "none", intel_cpus |-> <<>>, intel_index |-> <<>>,
     amd_cpus |-> <<>>, amd_index |-> <<>>]

\* CpuCache::new, one of the two loops: an entry is pushed for every cpu
\* whose generation succeeds; positions count from 0
RECURSIVE BuildIndex(_, _, _)
\* the loop giving every entry the position 0
BuildIndexStepSamePosition(cpus, i, index, generated) ==
    IF IsOk(generated) THEN BuildIndex(cpus, i + 1, Append(index, [generated.out EXCEPT !.index = 0]))
    ELSE BuildIndex(cpus, i + 1, index)
BuildIndexStep(cpus, i, index, generated) ==
    IF IsOk(generated) THEN BuildIndex(cpus, i + 1, Append(index, generated.out))
    ELSE BuildIndex(cpus, i + 1, index)
BuildIndex(cpus, i, index) ==
    IF i >= Len(cpus) THEN index
    ELSE BuildIndexStep(cpus, i, index, GenerateIndexEntry(cpus[i + 1].name, i))
\* CpuCache::new
CpuCacheNew(intel_cpus, amd_cpus) ==
    [state |-> "built",
     intel_cpus |-> intel_cpus, intel_index |-> BuildIndex(intel_cpus, 0, <<>>),
     amd_cpus |-> amd_cpus, amd_index |-> BuildIndex(amd_cpus, 0, <<>>)]

\* find choosing the AMD index for an input that starts with "AMD"
StartsWithAmd(input) == StartsWith(input, <<"A", "M", "D">>)
\* CpuCache::find, input.contains("AMD")
ContainsAmd(input) == Contains(input, <<"A", "M", "D">>)
\* CpuCache::find, the index selected
SelectIndex(self, input) == IF ContainsAmd(input) THEN self.amd_index ELSE self.intel_index

\* find taking every entry of the index for a similar cpu
SimilarCpusAll(index, idx_for_input) == index
\* CpuCache::find, similar_cpus: the entries with the model of the input
SimilarCpus(index, idx_for_input) ==
    SelectSeq(index, LAMBDA idx : idx.model = idx_for_input.model)

\* CpuCache::find, the score of one entry
EntryScore(idx_for_input, idx_entry) ==
    (IF idx_for_input.prefix # idx_entry.prefix THEN -10 ELSE 0)
    + (IF idx_for_input.suffix # idx_entry.suffix THEN -10 ELSE 0)
    + 5 * Cardinality(idx_for_input.tags \cap idx_entry.tags)

\* CpuCache::find, the loop over similar_cpus: a later entry replaces the
\* best match only with a strictly higher score
RECURSIVE BestMatch(_, _, _, _)
\* the loop of find replacing the best match also on an equal score
BestMatchStepLastWins(idx_for_input, similar_cpus, score, best_score, best_idx_match) ==
    IF score >= best_score
    THEN BestMatch(idx_for_input, Tail(similar_cpus), score, Some(Head(similar_cpus)))
    ELSE BestMatch(idx_for_input, Tail(similar_cpus), best_score, best_idx_match)
BestMatchStep(idx_for_input, similar_cpus, score, best_score, best_idx_match) ==
    IF score > best_score
    THEN BestMatch(idx_for_input, Tail(similar_cpus), score, Some(Head(similar_cpus)))
    ELSE BestMatch(idx_for_input, Tail(similar_cpus), best_score, best_idx_match)
BestMatch(idx_for_input, similar_cpus, best_score, best_idx_match) ==
    IF similar_cpus = <<>> THEN best_idx_match
    ELSE BestMatchStep(idx_for_input, similar_cpus,
                       EntryScore(idx_for_input, Head(similar_cpus)),
                       best_score, best_idx_match)

\* CpuCache::find, the copy of an Intel cpu into owned strings
ToOwned(found_cpu) ==
    [name |-> found_cpu.name,
     attributes |-> [k \in DOMAIN found_cpu.attributes |-> found_cpu.attributes[k]]]
\* CpuCache::find, the match on best_idx_match
FoundCpu(self, input, best_idx_match) ==
    IF ~IsSome(best_idx_match) THEN ErrWith("No close matches found")
    ELSE IF ContainsAmd(input)
    THEN Ok(<<>>, self.amd_cpus[Unwrap(best_idx_match).index + 1])
    ELSE Ok(<<>>, ToOwned(self.intel_cpus[Unwrap(best_idx_match).index + 1]))
\* CpuCache::find, from the ? on the generated entry on
FindWith(self, input, index, generated) ==
    IF ~IsOk(generated) THEN generated
    ELSE FoundCpu(self, input,
                  BestMatch(generated.out, SimilarCpus(index, generated.out), -100, None))
\* find forgetting the index it has searched
FindDropsIndex(self, input) ==
    IF ContainsAmd(input) THEN [self EXCEPT !.amd_index = <<>>]
    ELSE [self EXCEPT !.intel_index = <<>>]
\* CpuCache::find, the cache it leaves: no field of self is assigned
FindLeaves(self, input) == self
\* CpuCache::find
CpuCacheFind(self, input) ==
    FindWith(self, input, SelectIndex(self, input), GenerateIndexEntry(input, 0))

-----------------------------------------------------------------------------
(* The Intel catalog: the lexer and the parser of its CSV files *)

\* the first line of a file, from the byte-order mark to the newline: the
\* title is kept as one element of the text
CsvTitle == <<"bom", "ARK | Intel Product Specification Comparison", "\n">>

\* str::split on a pattern of one or more characters
RECURSIVE SplitOn(_, _)
SplitOnAt(s, pattern, i) ==
    IF i = 0 THEN <<s>>
    ELSE <<Take(s, i - 1)>> \o SplitOn(Drop(s, i - 1 + Len(pattern)), pattern)
SplitOn(s, pattern) == SplitOnAt(s, pattern, Find(s, pattern))

\* lexer::read_file_header
ReadFileHeader(input) ==
    Delimited(LAMBDA i : Tag(CsvTitle, i),
              LAMBDA i : TakeUntil(<<"\n">>, i),
              LAMBDA i : Tag(<<"\n", " ", ",">>, i), input)

\* read_cpu_record, from the split on: the rest starts with the " \n" that
\* take_until left in it, so that strip_prefix always finds it
CpuRecordOf(cpu_record) ==
    IF ~IsOk(cpu_record) THEN Err
    ELSE Ok(Drop(cpu_record.rest, 2), SplitOn(cpu_record.out, <<" ", ",">>))
\* lexer::read_cpu_record
ReadCpuRecord(input) == CpuRecordOf(TakeUntil(<<" ", "\n">>, input))

\* read_record of the lexer, from the split on
CsvRecordOf(record) ==
    IF ~IsOk(record) THEN Err
    ELSE Ok(Drop(record.rest, 1), SplitOn(record.out, <<",">>))
\* lexer::read_record
CsvReadRecord(input) == CsvRecordOf(TakeUntil(<<"\n">>, input))

\* read_section, the combinator: a line that is discarded, then the text
\* before two newlines in a row
SectionFields(input) ==
    Delimited(LAMBDA i : Terminated(LAMBDA j : TakeUntil(<<"\n">>, j),
                                    LAMBDA j : Tag(<<"\n">>, j), i),
              LAMBDA i : TakeUntil(<<"\n", "\n">>, i),
              LAMBDA i : Tag(<<"\n", "\n">>, i), input)
\* read_section, the match: the text found is returned with the newline
\* that follows it, which is the first of the two the combinator has read;
\* when the combinator fails the whole input is the section
SectionOf(combinator_output, input) ==
    IF IsOk(combinator_output)
    THEN Ok(combinator_output.rest, combinator_output.out \o <<"\n">>)
    ELSE Ok(<<>>, input)
\* lexer::read_section
ReadSection(input) == SectionOf(SectionFields(input), input)

\* lex_csv, the loop over the sections: read_section returns no error
RECURSIVE LexSections(_, _)
LexSections(iterated_output, serialized_records) ==
    IF iterated_output.rest = <<>> THEN serialized_records
    ELSE LexSections(ReadSection(iterated_output.rest),
                     Append(serialized_records, iterated_output.out))
\* lex_csv, the loop over the records of one section
RECURSIVE LexRecords(_, _)
LexRecords(iterated_output, deserialized_records) ==
    IF ~IsOk(iterated_output) THEN Err
    ELSE IF iterated_output.rest = <<>> THEN Ok(<<>>, deserialized_records)
    ELSE LexRecords(CsvReadRecord(iterated_output.rest),
                    Append(deserialized_records, iterated_output.out))
\* lex_csv, the loop over the serialized sections
RECURSIVE LexSerialized(_, _)
LexSerializedNext(serialized_records, records) ==
    IF ~IsOk(records) THEN Err ELSE LexSerialized(Tail(serialized_records), records.out)
LexSerialized(serialized_records, deserialized_records) ==
    IF serialized_records = <<>> THEN Ok(<<>>, deserialized_records)
    ELSE LexSerializedNext(serialized_records,
                           LexRecords(CsvReadRecord(Head(serialized_records)),
                                      deserialized_records))
\* lex_csv, from the expect on the list of cpus on
LexerOutputOf(header, cpus, records) ==
    IF ~IsOk(records) THEN Err
    ELSE Ok(<<>>, [timestamp |-> header.out, cpus |-> cpus.out, records |-> records.out])
LexFromCpus(header, cpus) ==
    IF ~IsOk(cpus) THEN Panic
    ELSE LexerOutputOf(header, cpus,
                       LexSerialized(LexSections(ReadSection(cpus.rest), <<>>), <<>>))
\* lex_csv, from the expect on the file header on
LexFromHeader(header) ==
    IF ~IsOk(header) THEN Panic ELSE LexFromCpus(header, ReadCpuRecord(header.rest))
\* lexer::lex_csv
LexCsv(input) == LexFromHeader(ReadFileHeader(input))

\* parse_csv, the loop over the records for the cpu of column i, counted
\* from 0 as enumerate does: None when record[i + 1] is out of bounds
RECURSIVE CpuAttributes(_, _, _)
CpuAttributes(records, i, attributes) ==
    IF records = <<>> THEN Some(attributes)
    ELSE IF Len(Head(records)) < i + 2 THEN None
    ELSE CpuAttributes(Tail(records), i,
                       IF Head(records)[i + 2] # <<>>
                       THEN MapInsert(attributes, Head(records)[1], Head(records)[i + 2])
                       ELSE attributes)
\* parse_csv, the loop over the cpus
RECURSIVE ParseCpus(_, _, _)
ParseCpusNext(lexer_output, i, output, attributes) ==
    IF ~IsSome(attributes) THEN Panic
    ELSE ParseCpus(lexer_output, i + 1,
                   Append(output, [name |-> lexer_output.cpus[i + 1],
                                   attributes |-> Unwrap(attributes)]))
ParseCpus(lexer_output, i, output) ==
    IF i >= Len(lexer_output.cpus) THEN Ok(<<>>, output)
    ELSE ParseCpusNext(lexer_output, i, output,
                       CpuAttributes(lexer_output.records, i, EmptyMap))
\* parse_csv, from the ? on the lexer's output on
ParseLexed(lexer_output) ==
    IF ~IsOk(lexer_output) THEN lexer_output
    ELSE ParseCpus(lexer_output.out, 0, <<>>)
\* parser::parse_csv
ParseCsv(csv) == ParseLexed(LexCsv(csv))

\* get_intel_cpus, the loop over the chunks, each parsed and unwrapped
RECURSIVE GetIntelCpusLoop(_, _)
GetIntelCpusNext(chunks, merged_vec, parsed) ==
    IF ~IsOk(parsed) THEN Panic
    ELSE GetIntelCpusLoop(Tail(chunks), merged_vec \o parsed.out)
GetIntelCpusLoop(chunks, merged_vec) ==
    IF chunks = <<>> THEN Ok(<<>>, merged_vec)
    ELSE GetIntelCpusNext(chunks, merged_vec, ParseCsv(Head(chunks)))
\* intel::get_intel_cpus
GetIntelCpus(chunks) == GetIntelCpusLoop(chunks, <<>>)

-----------------------------------------------------------------------------
(* The loops of the database parsers, one pass at a time.  A pass is the   *)
(* call of the loop's parser on the input the loop has come to and the     *)
(* test that follows it: the loop is left, or it goes on with the rest.    *)

Leaves == [leaves |-> TRUE, rest |-> <<>>]
GoesOn(rest) == [leaves |-> FALSE, rest |-> rest]

\* while let Ok(..) = iterated_output: a panic ends the loop as well
WhileOk(iterated_output) ==
    IF IsOk(iterated_output) THEN GoesOn(iterated_output.rest) ELSE Leaves
\* the loops of read_vendor and read_device: a record is read, or a
\* comment is skipped, or the loop is left with break; when the skip fails
\* the function returns
RecordOrComment(iterated_output, leftover, skipped) ==
    IF iterated_output.kind = "Panic" THEN Leaves
    ELSE IF IsOk(iterated_output) THEN GoesOn(iterated_output.rest)
    ELSE IF StartsWith(leftover, <<"#">>) THEN WhileOk(skipped)
    ELSE Leaves

\* parse_pcie_db, a pass through its loop
ParsePcieDbPass(input) == WhileOk(ReadVendor(input))
\* pcie::read_vendor, a pass through its loop
ReadVendorPass(leftover) ==
    RecordOrComment(ReadDevice(leftover), leftover, SkipLine(leftover))
\* pcie::read_device, a pass through its loop
ReadDevicePass(leftover) ==
    RecordOrComment(ReadSubsystemLine(leftover), leftover, SkipLine(leftover))
\* parse_usb_db, a pass through its loop
ParseUsbDbPass(input) == WhileOk(UsbReadVendor(input))
\* usb::read_vendor, a pass through its loop, had the skip of a comment
\* left the comment where it is
UsbReadVendorPassKeepsComment(leftover) ==
    RecordOrComment(UsbReadDeviceLine(leftover), leftover, Ok(leftover, <<>>))
\* usb::read_vendor, a pass through its loop
UsbReadVendorPass(leftover) ==
    RecordOrComment(UsbReadDeviceLine(leftover), leftover, TakeUntil(<<"\t">>, leftover))
\* CodeCache::new, a pass through its loop
CodeCachePass(input) == WhileOk(ReadRecord(input))
\* lex_csv, a pass through the loop over the sections
LexSectionsPass(input) ==
    LET iterated_output == ReadSection(input)
    IN IF iterated_output.rest = <<>> THEN Leaves ELSE GoesOn(iterated_output.rest)
\* lex_csv, a pass through the loop over the records of a section: the ?
\* returns from lex_csv
LexRecordsPass(input) ==
    LET iterated_output == CsvReadRecord(input)
    IN IF ~IsOk(iterated_output) \/ iterated_output.rest = <<>> THEN Leaves
       ELSE GoesOn(iterated_output.rest)

-----------------------------------------------------------------------------
(* Identifier strings under test.  A string is put together from a head, a *)
(* vendor field, a separator, a device tag, a device field, an optional    *)
(* SUBSYS segment and trailing text; id_input keeps the parts.             *)

PciHead == <<"P", "C", "I", "\\", "V", "E", "N", "_">>
UsbHead == <<"U", "S", "B", "\\", "V", "I", "D", "_">>
DevTag == <<"D", "E", "V", "_">>
PidTag == <<"P", "I", "D", "_">>
SubsysTag == <<"&", "S", "U", "B", "S", "Y", "S", "_">>

\* four hex digits each, with the number they denote
HexFields ==
    { [text |-> <<"1", "0", "e", "C">>, value |-> 4332],
      [text |-> <<"1", "0", "e", "c">>, value |-> 4332],
      [text |-> <<"1", "0", "E", "C">>, value |-> 4332],
      [text |-> <<"5", "6", "7", "8">>, value |-> 22136],
      [text |-> <<"a", "0", "B", "f">>, value |-> 41151],
      [text |-> <<"0", "0", "0", "1">>, value |-> 1],
      [text |-> <<"1", "0", "2", "2">>, value |-> 4130],
      [text |-> <<"1", "6", "3", "3">>, value |-> 5683],
      [text |-> <<"8", "0", "0", "8">>, value |-> 32776] }
HexTexts == {f.text : f \in HexFields}
ValueOf(text) == (CHOOSE f \in HexFields : f.text = text).value
\* a non-hex character, a field that is too short, a sign
BadTexts == { <<"1", "2", "G", "4">>, <<"1", "2", "3">>, <<"+", "1", "2", "3">> }

IdHeads == {PciHead, UsbHead, <<"P", "C", "I", "\\", "V", "E", "N">>}
IdVendorTexts == {<<"1", "0", "e", "C">>} \cup BadTexts
IdSeparators == {<<"&">>, <<"\\">>}
IdDeviceTags == {DevTag, PidTag, <<"D", "E", "V">>}
IdDeviceTexts == {<<"5", "6", "7", "8">>, <<"1", "2", "G", "4">>, <<"1", "2", "3">>}
IdSubsysTexts == {<<"a", "0", "B", "f">>, <<"9", "G", "2", "3">>, <<"9", "1", "2">>}
IdTails ==
    { <<>>,
      <<"0", "0", "0", "0", "&", "R", "E", "V", "_", "0", "0">>,
      <<"&", "R", "E", "V", "_", "0", "0">>,
      <<"&", "C", "C", "_", "1", "1", "2", "2">>,
      <<"\\", "9", "4", "7", "9", "4", "9", "3">>,
      <<"&", "S", "U", "B", "_", "0", "0">> }

IdParts ==
    [head : IdHeads, v : IdVendorTexts, sep : IdSeparators, dtag : IdDeviceTags,
     d : IdDeviceTexts, ss : {None} \cup {Some(s) : s \in IdSubsysTexts}, tail : IdTails]

IdString(p) ==
    p.head \o p.v \o p.sep \o p.dtag \o p.d
        \o (IF IsSome(p.ss) THEN SubsysTag \o Unwrap(p.ss) ELSE <<>>) \o p.tail

-----------------------------------------------------------------------------
(* The identifier parsers applied to one string *)

IdentIdle == id_input = <<>> /\ pci_ident = NotRun /\ usb_ident = NotRun
PcieIdle ==
    /\ pci_text = <<>>
    /\ pci_lines = <<>>
    /\ pcie_cache = NoCache
    /\ pcie_input = <<>>
    /\ pcie_result = NotRun

UsbIdle ==
    /\ usb_text = <<>>
    /\ usb_lines = <<>>
    /\ usb_cache = NoUsbCache
    /\ usb_input = <<>>
    /\ usb_result = NotRun

BugIdle ==
    /\ bug_text = <<>>
    /\ bug_rows = <<>>
    /\ bug_cache = NoCodeCache
    /\ bug_code = 0
    /\ bug_result = NotRun

CpuIdle == cpu_cache = NoCpuCache /\ cpu_input = <<>> /\ cpu_result = NotRun
Callers == {1, 2}
IdleCaller == [pc |-> "idle", input |-> <<>>, state |-> NoCpuCache, result |-> NotRun]
ModelIdle == model_input = <<>> /\ model_found = NotRun /\ model_entry = NotRun
CallsIdle == cpu_calls = <<>> /\ cpu_callers = [c \in Callers |-> IdleCaller]

NoFault == [level |-> "none", kind |-> "none"]
FaultIdle == pci_fault = NoFault

NoRow == [code |-> [text |-> <<>>, value |-> 0], name |-> <<>>, link |-> <<>>,
          pad |-> <<>>, following |-> <<>>]
RecordIdle == record_input = NoRow /\ record_result = NotRun

NoSection == [section |-> 0, result |-> NotRun]
CsvIdle ==
    /\ csv_names = <<>> /\ csv_text = <<>> /\ csv_sections = <<>>
    /\ csv_section = NoSection
    /\ csv_lexed = NotRun /\ csv_parsed = NotRun /\ csv_loaded = NotRun

LoopIdle ==
    /\ loop_name = "none" /\ loop_input = <<>> /\ loop_rest = <<>>
    /\ loop_done = FALSE /\ loop_passes = 0

\* every component but one is left as it was constructed
IdleBut(component) ==
    /\ component # "ident" => IdentIdle
    /\ component # "pcie" => PcieIdle
    /\ component # "usb" => UsbIdle
    /\ component # "bugcheck" => BugIdle
    /\ component # "cpu" => CpuIdle
    /\ component # "calls" => CallsIdle
    /\ component # "model" => ModelIdle
    /\ component # "fault" => FaultIdle
    /\ component # "record" => RecordIdle
    /\ component # "csv" => CsvIdle
    /\ component # "loop" => LoopIdle

InitIdent ==
    /\ id_input \in IdParts
    /\ pci_ident = NotRun
    /\ usb_ident = NotRun
    /\ IdleBut("ident")

ParsePciIdentifier ==
    /\ pci_ident = NotRun
    /\ pci_ident' = PcieParseDeviceIdentifier(IdString(id_input))
    /\ UNCHANGED <<id_input, usb_ident, notIdentVars>>

ParseUsbIdentifier ==
    /\ usb_ident = NotRun
    /\ usb_ident' = UsbParseDeviceIdentifier(IdString(id_input))
    /\ UNCHANGED <<id_input, pci_ident, notIdentVars>>

NextIdent == ParsePciIdentifier \/ ParseUsbIdentifier

SpecIdent == InitIdent /\ [][NextIdent]_vars

-----------------------------------------------------------------------------
(* The PCI-ID database text, written line by line as its grammar allows,   *)
(* then PcieCache::new on it, then any number of find calls.  pci_lines    *)
(* keeps the records written: vendors in source order, each with its       *)
(* devices, each device with its subsystems.                               *)

MaxPciLines == 4

PciHeader == <<"#", " ", "p", "\n">>
PciComment == <<"#", " ", "c", "\n">>
PciVendorIds == {<<"0", "0", "0", "1">>, <<"1", "0", "e", "c">>}
PciDeviceIds == {<<"0", "0", "0", "1">>, <<"1", "6", "3", "3">>}
PciSubsystemIds == {<<"1", "6", "3", "3">>, <<"8", "0", "0", "8">>}
PciSubVendorId == <<"1", "0", "2", "2">>
PciNames == {<<"R", "e">>, <<"G", " ", "x">>}

NewlineCount(text) == Cardinality({i \in 1..Len(text) : text[i] = "\n"})
PciWritable ==
    /\ pci_text # <<>>
    /\ pcie_cache = NoCache
    /\ NewlineCount(pci_text) < MaxPciLines + NewlineCount(PciHeader)
    /\ pci_text[Len(pci_text)] = "\n"
Last(seq) == seq[Len(seq)]
SetLast(seq, x) == [seq EXCEPT ![Len(seq)] = x]
Ids(seq) == {seq[i].id : i \in 1..Len(seq)}

InitPcie ==
    /\ pci_text = PciHeader
    /\ pci_lines = <<>>
    /\ pcie_cache = NoCache
    /\ pcie_input = <<>>
    /\ pcie_result = NotRun
    /\ IdleBut("pcie")

\* a vendor line: the id, two spaces, the name; the list starts with vendor 0001
WriteVendorLine ==
    /\ PciWritable
    /\ \E id \in PciVendorIds, name \in PciNames :
        /\ ValueOf(id) \notin Ids(pci_lines)
        /\ pci_lines = <<>> => id = <<"0", "0", "0", "1">>
        /\ pci_text' = pci_text \o id \o <<" ", " ">> \o name \o <<"\n">>
        /\ pci_lines' = Append(pci_lines, [id |-> ValueOf(id), name |-> name, devices |-> <<>>])
    /\ UNCHANGED <<pcie_cache, pcie_input, pcie_result, notPcieVars>>

\* a device line under the last vendor: a tab, the id, two spaces, the name
WriteDeviceLine ==
    /\ PciWritable
    /\ pci_lines # <<>>
    /\ \E id \in PciDeviceIds, name \in PciNames :
        LET vendor == Last(pci_lines)
            device == [id |-> ValueOf(id), name |-> name, subsystems |-> <<>>]
        IN /\ ValueOf(id) \notin Ids(vendor.devices)
           /\ pci_text' = pci_text \o <<"\t">> \o id \o <<" ", " ">> \o name \o <<"\n">>
           /\ pci_lines' =
                  SetLast(pci_lines, [vendor EXCEPT !.devices = Append(@, device)])
    /\ UNCHANGED <<pcie_cache, pcie_input, pcie_result, notPcieVars>>

\* a subsystem line under the last device: two tabs, the sub-vendor id, a
\* space, the subsystem id, two spaces, the name
WriteSubsystemLine ==
    /\ PciWritable
    /\ pci_lines # <<>>
    /\ Last(pci_lines).devices # <<>>
    /\ \E id \in PciSubsystemIds, name \in PciNames :
        LET vendor == Last(pci_lines)
            device == Last(vendor.devices)
            subsystem == [id |-> ValueOf(id), name |-> name]
            grown == [device EXCEPT !.subsystems = Append(@, subsystem)]
        IN /\ pci_text' = pci_text \o <<"\t", "\t">> \o PciSubVendorId \o <<" ">> \o id
                              \o <<" ", " ">> \o name \o <<"\n">>
           /\ pci_lines' =
                  SetLast(pci_lines, [vendor EXCEPT !.devices = SetLast(@, grown)])
    /\ UNCHANGED <<pcie_cache, pcie_input, pcie_result, notPcieVars>>

\* a comment line, at any level
WriteCommentLine ==
    /\ PciWritable
    /\ pci_lines # <<>>
    /\ pci_text' = pci_text \o PciComment
    /\ UNCHANGED <<pci_lines, pcie_cache, pcie_input, pcie_result, notPcieVars>>

\* PcieCache::new
PcieNew ==
    /\ pci_text # <<>>
    /\ pcie_cache = NoCache
    /\ pcie_cache' = PcieCacheNew(pci_text)
    /\ UNCHANGED <<pci_text, pci_lines, pcie_input, pcie_result, notPcieVars>>

\* the identifiers handed to find: known and unknown vendors, devices and
\* subsystems, and two that do not parse
PcieQuery(v, d, ss) ==
    [head |-> PciHead, v |-> v, sep |-> <<"&">>, dtag |-> DevTag, d |-> d, ss |-> ss,
     tail |-> IF IsSome(ss) THEN PciSubVendorId \o <<"&", "R", "E", "V", "_", "0", "0">>
              ELSE <<>>]
PcieQueries ==
    {PcieQuery(<<"0", "0", "0", "1">>, <<"1", "6", "3", "3">>, ss) :
        ss \in {None, Some(<<"1", "6", "3", "3">>), Some(<<"8", "0", "0", "8">>)}}
    \cup {PcieQuery(<<"0", "0", "0", "1">>, <<"0", "0", "0", "1">>, None),
          PcieQuery(<<"1", "0", "E", "C">>, <<"0", "0", "0", "1">>, None),
          PcieQuery(<<"1", "0", "E", "C">>, <<"1", "6", "3", "3">>, Some(<<"8", "0", "0", "8">>)),
          PcieQuery(<<"1", "0", "2", "2">>, <<"1", "6", "3", "3">>, None),
          PcieQuery(<<"0", "0", "0", "1">>, <<"8", "0", "0", "8">>, None),
          PcieQuery(<<"1", "2", "G", "4">>, <<"1", "6", "3", "3">>, None),
          [PcieQuery(<<"0", "0", "0", "1">>, <<"1", "6", "3", "3">>, None)
              EXCEPT !.head = UsbHead]}

\* PcieCache::find
PcieFind ==
    /\ pcie_cache.state = "built"
    /\ \E query \in PcieQueries :
        /\ pcie_input' = query
        /\ pcie_result' = PcieCacheFind(pcie_cache, IdString(query))
    /\ UNCHANGED <<pci_text, pci_lines, pcie_cache, notPcieVars>>

NextPcie ==
    \/ WriteVendorLine
    \/ WriteDeviceLine
    \/ WriteSubsystemLine
    \/ WriteCommentLine
    \/ PcieNew
    \/ PcieFind

SpecPcie == InitPcie /\ [][NextPcie]_vars

-----------------------------------------------------------------------------
(* The PCI-ID text with what a text may hold besides the lines of the      *)
(* grammar: a last comment line that no newline ends, and one line with a  *)
(* malformed field: an id that is no hex number, or one space where the    *)
(* grammar has two. Then PcieCache::new on the text.                       *)

PciBadId == <<"1", "2", "G", "4">>
PciFaults == {"delimiter", "hex"}
\* the id and the delimiter of a malformed line
FaultyId(kind, id) == IF kind = "hex" THEN PciBadId ELSE id
FaultyDelimiter(kind) == IF kind = "hex" THEN <<" ", " ">> ELSE <<" ">>

\* a comment as the last line of the text, without a newline
WriteLastComment ==
    /\ PciWritable
    /\ pci_lines # <<>>
    /\ pci_text' = pci_text \o <<"#", " ", "c">>
    /\ UNCHANGED <<pci_lines, pcie_cache, pcie_input, pcie_result, notPcieVars>>

\* a vendor line with a malformed field
WriteFaultyVendorLine ==
    /\ PciWritable
    /\ pci_lines # <<>>
    /\ pci_fault = NoFault
    /\ \E kind \in PciFaults, id \in PciVendorIds, name \in PciNames :
        /\ ValueOf(id) \notin Ids(pci_lines)
        /\ pci_text' = pci_text \o FaultyId(kind, id) \o FaultyDelimiter(kind) \o name \o <<"\n">>
        /\ pci_fault' = [level |-> "vendor", kind |-> kind]
    /\ UNCHANGED <<pci_lines, pcie_cache, pcie_input, pcie_result, notPcieFaultVars>>

\* a device line with a malformed field, under the last vendor
WriteFaultyDeviceLine ==
    /\ PciWritable
    /\ pci_lines # <<>>
    /\ pci_fault = NoFault
    /\ \E kind \in PciFaults, id \in PciDeviceIds, name \in PciNames :
        /\ ValueOf(id) \notin Ids(Last(pci_lines).devices)
        /\ pci_text' = pci_text \o <<"\t">> \o FaultyId(kind, id) \o FaultyDelimiter(kind)
                           \o name \o <<"\n">>
        /\ pci_fault' = [level |-> "device", kind |-> kind]
    /\ UNCHANGED <<pci_lines, pcie_cache, pcie_input, pcie_result, notPcieFaultVars>>

\* a subsystem line with a malformed field, under the last device
WriteFaultySubsystemLine ==
    /\ PciWritable
    /\ pci_lines # <<>>
    /\ Last(pci_lines).devices # <<>>
    /\ pci_fault = NoFault
    /\ \E kind \in PciFaults, id \in PciSubsystemIds, name \in PciNames :
        /\ pci_text' = pci_text \o <<"\t", "\t">> \o PciSubVendorId \o <<" ">>
                           \o FaultyId(kind, id) \o FaultyDelimiter(kind) \o name \o <<"\n">>
        /\ pci_fault' = [level |-> "subsystem", kind |-> kind]
    /\ UNCHANGED <<pci_lines, pcie_cache, pcie_input, pcie_result, notPcieFaultVars>>

NextPciText ==
    \/ WriteVendorLine
    \/ WriteDeviceLine
    \/ WriteSubsystemLine
    \/ WriteCommentLine
    \/ WriteLastComment
    \/ WriteFaultyVendorLine
    \/ WriteFaultyDeviceLine
    \/ WriteFaultySubsystemLine
    \/ PcieNew

SpecPciText == InitPcie /\ [][NextPciText]_vars

-----------------------------------------------------------------------------
(* The USB-ID database text, written line by line as its grammar allows,   *)
(* then UsbCache::new on it, then any number of find calls.                *)

MaxUsbLines == 4

UsbHeader == <<"#", " ", "u", "\n">>
UsbComment == <<"#", " ", "c", "\n">>
UsbVendorIds == {<<"0", "0", "0", "1">>, <<"1", "0", "e", "c">>}
UsbDeviceIds == {<<"0", "0", "0", "1">>, <<"5", "6", "7", "8">>}
UsbNames == {<<"H", "u", "b">>, <<"K", " ", "b">>}

UsbWritable ==
    /\ usb_text # <<>>
    /\ usb_cache = NoUsbCache
    /\ NewlineCount(usb_text) < MaxUsbLines + NewlineCount(UsbHeader)

InitUsb ==
    /\ usb_text = UsbHeader
    /\ usb_lines = <<>>
    /\ usb_cache = NoUsbCache
    /\ usb_input = <<>>
    /\ usb_result = NotRun
    /\ IdleBut("usb")

\* a vendor line: the id, two spaces, the name; the list starts with vendor 0001
UsbWriteVendorLine ==
    /\ UsbWritable
    /\ \E id \in UsbVendorIds, name \in UsbNames :
        /\ ValueOf(id) \notin Ids(usb_lines)
        /\ usb_lines = <<>> => id = <<"0", "0", "0", "1">>
        /\ usb_text' = usb_text \o id \o <<" ", " ">> \o name \o <<"\n">>
        /\ usb_lines' = Append(usb_lines, [id |-> ValueOf(id), name |-> name, devices |-> <<>>])
    /\ UNCHANGED <<usb_cache, usb_input, usb_result, notUsbVars>>

\* a device line under the last vendor: a tab, the id, two spaces, the name
UsbWriteDeviceLine ==
    /\ UsbWritable
    /\ usb_lines # <<>>
    /\ \E id \in UsbDeviceIds, name \in UsbNames :
        LET vendor == Last(usb_lines)
            device == [id |-> ValueOf(id), name |-> name]
        IN /\ ValueOf(id) \notin Ids(vendor.devices)
           /\ usb_text' = usb_text \o <<"\t">> \o id \o <<" ", " ">> \o name \o <<"\n">>
           /\ usb_lines' =
                  SetLast(usb_lines, [vendor EXCEPT !.devices = Append(@, device)])
    /\ UNCHANGED <<usb_cache, usb_input, usb_result, notUsbVars>>

\* a comment line
UsbWriteCommentLine ==
    /\ UsbWritable
    /\ usb_lines # <<>>
    /\ usb_text' = usb_text \o UsbComment
    /\ UNCHANGED <<usb_lines, usb_cache, usb_input, usb_result, notUsbVars>>

\* UsbCache::new
UsbNew ==
    /\ usb_text # <<>>
    /\ usb_cache = NoUsbCache
    /\ usb_cache' = UsbCacheNew(usb_text)
    /\ UNCHANGED <<usb_text, usb_lines, usb_input, usb_result, notUsbVars>>

\* the identifiers handed to find: known and unknown vendors and devices,
\* with and without trailing text, and two that do not parse
UsbQuery(v, d, tail) ==
    [head |-> UsbHead, v |-> v, sep |-> <<"&">>, dtag |-> PidTag, d |-> d, ss |-> None,
     tail |-> tail]
UsbQueries ==
    {UsbQuery(v, d, <<"\\", "9", "4", "7", "9", "4", "9", "3">>) :
        v \in {<<"0", "0", "0", "1">>, <<"1", "0", "E", "C">>},
        d \in {<<"0", "0", "0", "1">>, <<"5", "6", "7", "8">>}}
    \cup {UsbQuery(<<"1", "0", "2", "2">>, <<"5", "6", "7", "8">>, <<>>),
          UsbQuery(<<"0", "0", "0", "1">>, <<"8", "0", "0", "8">>, <<>>),
          UsbQuery(<<"1", "2", "G", "4">>, <<"5", "6", "7", "8">>, <<>>),
          [UsbQuery(<<"0", "0", "0", "1">>, <<"5", "6", "7", "8">>, <<>>)
              EXCEPT !.head = PciHead]}

\* UsbCache::find
UsbFind ==
    /\ usb_cache.state = "built"
    /\ \E query \in UsbQueries :
        /\ usb_input' = query
        /\ usb_result' = UsbCacheFind(usb_cache, IdString(query))
    /\ UNCHANGED <<usb_text, usb_lines, usb_cache, notUsbVars>>

NextUsb ==
    \/ UsbWriteVendorLine
    \/ UsbWriteDeviceLine
    \/ UsbWriteCommentLine
    \/ UsbNew
    \/ UsbFind

SpecUsb == InitUsb /\ [][NextUsb]_vars

\* either device cache, from its database text to its find calls
InitDevices == InitPcie \/ InitUsb
NextDevices == NextPcie \/ NextUsb
SpecDevices == InitDevices /\ [][NextDevices]_vars

-----------------------------------------------------------------------------
(* The bugcheck table, written row by row, well-formed rows and rows that  *)
(* are not, then CodeCache::new on it, then any number of get calls.       *)
(* bug_rows keeps for every row whether it is well-formed, whether it      *)
(* starts with "| 0x000", and the code, name and url it states.            *)

MaxBugRows == 3

BugHeader == <<"|", " ", "C", "o", "d", "e", " ", "|", " ", "N", "a", "m", "e", " ", "|", "\n", "|", "-", "-", "|", "-", "-", "|", "\n">>
BugCodes ==
    { [text |-> <<"0", "x", "0", "0", "0", "0", "0", "0", "0", "1">>, value |-> 1],
      [text |-> <<"0", "x", "0", "0", "0", "0", "0", "0", "0", "A">>, value |-> 10],
      [text |-> <<"0", "x", "1", "0", "0", "0", "0", "0", "7", "E">>, value |-> 268435582] }
BugLinks ==
    { [md |-> <<"[", "*", "*", "A", "P", "C", "\\", "_", "X", "*", "*", "]", "(", "b", "-", "0", "x", "1", ".", "m", "d", ")">>, pad |-> <<" ", " ">>,
       name |-> <<"A", "P", "C", "_", "X">>, url |-> DocsBase \o <<"b", "-", "0", "x", "1">>],
      [md |-> <<"[", "*", "*", "H", "A", "L", "*", "*", "]", "(", "h", "a", "l", ".", "m", "d", ")">>, pad |-> <<" ">>,
       name |-> <<"H", "A", "L">>, url |-> DocsBase \o <<"h", "a", "l">>] }
\* rows that are not well-formed: a blank line, a code of fewer than ten
\* characters, a name that is no link, a row without its closing pipe, a
\* code with a character that is no hex digit
BugBadRows ==
    { <<"\n">>,
      <<"|", " ", "0", "x", "0", "1", " ", "|", " ", "[", "*", "*", "H", "A", "L", "*", "*", "]", "(", "h", "a", "l", ".", "m", "d", ")", " ", "|", "\n">>,
      <<"|", " ", "0", "x", "0", "0", "0", "0", "0", "0", "0", "1", " ", "|", " ", "H", "A", "L", " ", "|", "\n">>,
      <<"|", " ", "0", "x", "0", "0", "0", "0", "0", "0", "0", "1", " ", "|", " ", "[", "*", "*", "H", "A", "L", "*", "*", "]", "(", "h", "a", "l", ".", "m", "d", ")", "\n">>,
      <<"|", " ", "0", "x", "0", "0", "0", "0", "0", "0", "0", "G", " ", "|", " ", "[", "*", "*", "H", "A", "L", "*", "*", "]", "(", "h", "a", "l", ".", "m", "d", ")", " ", "|", "\n">> }
BugQueryCodes == {1, 2, 10, 268435582}

BugWritable == bug_cache = NoCodeCache /\ Len(bug_rows) < MaxBugRows
StartsTable(row) == StartsWith(row, <<"|", " ", "0", "x", "0", "0", "0">>)

InitBug ==
    /\ bug_text = BugHeader
    /\ bug_rows = <<>>
    /\ bug_cache = NoCodeCache
    /\ bug_code = 0
    /\ bug_result = NotRun
    /\ IdleBut("bugcheck")

\* a well-formed row: the code, the link, padding, the closing pipe
WriteRow ==
    /\ BugWritable
    /\ \E code \in BugCodes, link \in BugLinks :
        LET row == <<"|", " ">> \o code.text \o <<" ", "|", " ">> \o link.md
                       \o link.pad \o <<"|", "\n">>
        IN /\ bug_text' = bug_text \o row
           /\ bug_rows' = Append(bug_rows, [ok |-> TRUE, starts |-> StartsTable(row),
                                            code |-> code.value, name |-> link.name,
                                            url |-> link.url])
    /\ UNCHANGED <<bug_cache, bug_code, bug_result, notBugVars>>

\* a row that is not well-formed
WriteBadRow ==
    /\ BugWritable
    /\ \E row \in BugBadRows :
        /\ bug_text' = bug_text \o row
        /\ bug_rows' = Append(bug_rows, [ok |-> FALSE, starts |-> StartsTable(row),
                                         code |-> 0, name |-> <<>>, url |-> <<>>])
    /\ UNCHANGED <<bug_cache, bug_code, bug_result, notBugVars>>

\* CodeCache::new
BugNew ==
    /\ bug_text # <<>>
    /\ bug_cache = NoCodeCache
    /\ bug_cache' = CodeCacheNew(bug_text)
    /\ UNCHANGED <<bug_text, bug_rows, bug_code, bug_result, notBugVars>>

\* CodeCache::get
BugGet ==
    /\ bug_cache.state = "built"
    /\ \E code \in BugQueryCodes :
        /\ bug_code' = code
        /\ bug_result' = Ok(<<>>, CodeCacheGet(bug_cache, code))
    /\ UNCHANGED <<bug_text, bug_rows, bug_cache, notBugVars>>

NextBug == WriteRow \/ WriteBadRow \/ BugNew \/ BugGet

SpecBug == InitBug /\ [][NextBug]_vars

-----------------------------------------------------------------------------
(* read_record on one table row.  A row is written from its parts: the     *)
(* code as a ten-character literal, the name inside the link, the file     *)
(* name of the link, the padding before the closing pipe, and the text     *)
(* that follows the row.                                                   *)

RowCodes ==
    BugCodes \cup
    { [text |-> <<"0", "x", "0", "0", "0", "0", "0", "0", "e", "f">>, value |-> 239],
      [text |-> <<"0", "x", "7", "F", "F", "F", "F", "F", "F", "F">>, value |-> 2147483647] }
RowNames == { <<"H", "A", "L">>, <<"A", "P", "C", "\\", "_", "X">>, <<"A", "\\", "_", "B", "\\", "_", "C">> }
RowLinks == { <<"h", "a", "l">>, <<"b", "u", "g", "-", "c", "h", "e", "c", "k", "-", "0", "x", "1">>, <<"a", ".", "m", "d">> }
RowPads == { <<>>, <<" ">>, <<" ", " ", " ">> }
RowFollowing ==
    { <<>>,
      <<"|", " ", "0", "x", "0", "0", "0", "0", "0", "0", "0", "A", " ", "|", " ", "[", "*", "*", "H", "A", "L", "*", "*", "]", "(", "h", "a", "l", ".", "m", "d", ")", " ", "|", "\n">>,
      <<"\n">> }
RowInputs ==
    [code : RowCodes, name : RowNames, link : RowLinks, pad : RowPads,
     following : RowFollowing]

\* the row as it stands in the table, with its newline
RowText(row) ==
    <<"|", " ">> \o row.code.text \o <<" ", "|", " ">>
        \o <<"[", "*", "*">> \o row.name \o <<"*", "*", "]">>
        \o <<"(">> \o row.link \o <<".", "m", "d", ")">>
        \o row.pad \o <<"|", "\n">>

InitRecord ==
    /\ record_input \in RowInputs
    /\ record_result = NotRun
    /\ IdleBut("record")

\* bugcheck::read_record on the row and what follows it
RecordRead ==
    /\ record_result = NotRun
    /\ record_result' = ReadRecord(RowText(record_input) \o record_input.following)
    /\ UNCHANGED <<record_input, notRecordVars>>

NextRecord == RecordRead

SpecRecord == InitRecord /\ [][NextRecord]_vars

-----------------------------------------------------------------------------
(* A file of the Intel catalog, written line by line after its header and  *)
(* its row of cpu names: a heading opens a section, attribute rows follow, *)
(* a blank line ends the section.  csv_sections keeps what was written.    *)
(* Then read_section on the text from one of the sections on, lex_csv and  *)
(* parse_csv on the file, and get_intel_cpus on the chunks.                *)

MaxCsvRows == 3

CsvTimestamp == <<"0", "1", "/", "1", "4">>
CsvNameRows == { <<<<"i", "3">>>>, <<<<"i", "3">>, <<"i", "5">>>> }
CsvHeading == <<"E", "s", "s">>
\* the attribute rows of a file of n cpus: a row with a value in every
\* column, a row whose first column is empty, and a row that is one cell
\* short
CsvRows(n) ==
    { [label |-> <<"C">>, cells |-> [j \in 1..n |-> IF j = 1 THEN <<"4">> ELSE <<"8">>]],
      [label |-> <<"T">>, cells |-> [j \in 1..n |-> IF j = 1 THEN <<>> ELSE <<"9">>]],
      [label |-> <<"S">>, cells |-> [j \in 1..(n - 1) |-> <<"7">>]] }
\* another chunk of the catalog
OtherChunk ==
    CsvTitle \o CsvTimestamp \o <<"\n", " ", ",", "i", "7", " ", "\n">>
        \o <<"E", "s", "s", "\n", "C", ",", "2", "\n", "T", ",", "6", "\n", "\n">>
        \o <<"E", "n", "d", "\n", "X", ",", "1", "\n", "Y", ",", "\n">>

RECURSIVE CpuRecordText(_)
CpuRecordText(names) ==
    IF Len(names) = 1 THEN names[1] \o <<" ", "\n">>
    ELSE names[1] \o <<" ", ",">> \o CpuRecordText(Tail(names))
RECURSIVE CommaCells(_)
CommaCells(cells) ==
    IF Len(cells) = 0 THEN <<>> ELSE <<",">> \o cells[1] \o CommaCells(Tail(cells))
CsvRowText(row) == row.label \o CommaCells(row.cells) \o <<"\n">>
RECURSIVE CsvRowsText(_)
CsvRowsText(rows) ==
    IF rows = <<>> THEN <<>> ELSE CsvRowText(rows[1]) \o CsvRowsText(Tail(rows))
CsvSectionText(section) ==
    CsvHeading \o <<"\n">> \o CsvRowsText(section.rows)
        \o (IF section.closed THEN <<"\n">> ELSE <<>>)
\* the text of the file from section k on
RECURSIVE CsvTextFrom(_, _)
CsvTextFrom(sections, k) ==
    IF k > Len(sections) THEN <<>>
    ELSE CsvSectionText(sections[k]) \o CsvTextFrom(sections, k + 1)
RECURSIVE CsvRowCount(_)
CsvRowCount(sections) ==
    IF sections = <<>> THEN 0 ELSE Len(sections[1].rows) + CsvRowCount(Tail(sections))

CsvUnread ==
    /\ csv_section = NoSection
    /\ csv_lexed = NotRun /\ csv_parsed = NotRun /\ csv_loaded = NotRun
CsvOpen == csv_sections # <<>> /\ ~csv_sections[Len(csv_sections)].closed
CsvComplete == csv_sections # <<>> /\ csv_sections[Len(csv_sections)].rows # <<>>

InitCsv ==
    /\ csv_names \in CsvNameRows
    /\ csv_text = CsvTitle \o CsvTimestamp \o <<"\n", " ", ",">> \o CpuRecordText(csv_names)
    /\ csv_sections = <<>>
    /\ csv_section = NoSection
    /\ csv_lexed = NotRun
    /\ csv_parsed = NotRun
    /\ csv_loaded = NotRun
    /\ IdleBut("csv")

\* the heading line of a section
WriteHeading ==
    /\ CsvUnread /\ ~CsvOpen
    /\ CsvRowCount(csv_sections) < MaxCsvRows
    /\ csv_text' = csv_text \o CsvHeading \o <<"\n">>
    /\ csv_sections' = Append(csv_sections, [rows |-> <<>>, closed |-> FALSE])
    /\ UNCHANGED <<csv_names, csv_section, csv_lexed, csv_parsed, csv_loaded, notCsvVars>>

\* an attribute row of the open section
WriteAttributeRow ==
    /\ CsvUnread /\ CsvOpen
    /\ CsvRowCount(csv_sections) < MaxCsvRows
    /\ \E row \in CsvRows(Len(csv_names)) :
        /\ csv_text' = csv_text \o CsvRowText(row)
        /\ csv_sections' =
               [csv_sections EXCEPT ![Len(csv_sections)].rows = Append(@, row)]
    /\ UNCHANGED <<csv_names, csv_section, csv_lexed, csv_parsed, csv_loaded, notCsvVars>>

\* the blank line that ends a section
WriteBlankLine ==
    /\ CsvUnread /\ CsvOpen
    /\ csv_sections[Len(csv_sections)].rows # <<>>
    /\ csv_text' = csv_text \o <<"\n">>
    /\ csv_sections' = [csv_sections EXCEPT ![Len(csv_sections)].closed = TRUE]
    /\ UNCHANGED <<csv_names, csv_section, csv_lexed, csv_parsed, csv_loaded, notCsvVars>>

\* read_section on the text from one of the sections on
SectionRead ==
    /\ CsvComplete
    /\ csv_section = NoSection
    /\ \E k \in 1..Len(csv_sections) :
        csv_section' = [section |-> k, result |-> ReadSection(CsvTextFrom(csv_sections, k))]
    /\ UNCHANGED <<csv_names, csv_text, csv_sections, csv_lexed, csv_parsed, csv_loaded,
                   notCsvVars>>

\* lex_csv on the file
CsvLex ==
    /\ CsvComplete
    /\ csv_lexed = NotRun
    /\ csv_lexed' = LexCsv(csv_text)
    /\ UNCHANGED <<csv_names, csv_text, csv_sections, csv_section, csv_parsed, csv_loaded,
                   notCsvVars>>

\* parse_csv on the file
CsvParse ==
    /\ csv_lexed # NotRun
    /\ csv_parsed = NotRun
    /\ csv_parsed' = ParseCsv(csv_text)
    /\ UNCHANGED <<csv_names, csv_text, csv_sections, csv_section, csv_lexed, csv_loaded,
                   notCsvVars>>

\* get_intel_cpus on two chunks, the file the second of them
CsvLoad ==
    /\ csv_parsed # NotRun
    /\ csv_loaded = NotRun
    /\ csv_loaded' = GetIntelCpus(<<OtherChunk, csv_text>>)
    /\ UNCHANGED <<csv_names, csv_text, csv_sections, csv_section, csv_lexed, csv_parsed,
                   notCsvVars>>

NextCsv ==
    \/ WriteHeading \/ WriteAttributeRow \/ WriteBlankLine
    \/ SectionRead \/ CsvLex \/ CsvParse \/ CsvLoad

SpecCsv == InitCsv /\ [][NextCsv]_vars

-----------------------------------------------------------------------------
(* The loops of the database parsers on any text of a few lines: lines of  *)
(* the grammar of the database in any order, comment lines, a comment no   *)
(* newline ends, lines with a malformed field.  A loop is entered with the *)
(* text and passed through until it is left.                               *)

MaxLoopLines == 3
\* a pass that does not leave its loop reads up to a newline at least, and
\* no line has more than two: a loop makes no more than twice as many
\* passes as its text has lines, and one to leave
MaxLoopPasses == 2 * MaxLoopLines + 2

PciLoopLines ==
    { <<"0", "0", "0", "1", " ", " ", "G", "\n">>, <<"\t", "0", "0", "0", "2", " ", " ", "D", "\n">>, <<"\t", "\t", "0", "0", "0", "1", " ", "0", "0", "0", "3", " ", " ", "S", "\n">>,
      <<"#", " ", "c", "\n">>, <<"#", " ", "c">>, <<"\t", "z", "z", "z", "z", " ", " ", "D", "\n">> }
UsbLoopLines ==
    { <<"0", "0", "0", "1", " ", " ", "V", "\n">>, <<"\t", "0", "0", "0", "2", " ", " ", "D", "\n">>, <<"#", " ", "c", "\n">>, <<"#", " ", "c", "\t", "d", "\n">>,
      <<"#", " ", "c">>, <<"\t", "z", "z", "\n">> }
BugLoopLines ==
    { <<"|", " ", "0", "x", "0", "0", "0", "0", "0", "0", "0", "1", " ", "|", " ", "[", "*", "*", "H", "A", "L", "*", "*", "]", "(", "h", "a", "l", ".", "m", "d", ")", " ", "|", "\n">>,
      <<"|", " ", "0", "x", "0", "0", "0", "0", "0", "0", "0", "1", " ", "|", " ", "[", "*", "*", "H", "A", "L", "*", "*", "]", "(", "h", "a", "l", ".", "m", "d", ")", "\n">>,
      <<"|", " ", "0", "x", "0", "0", "0", "0", "0", "0", "0", "G", " ", "|", " ", "[", "*", "*", "H", "A", "L", "*", "*", "]", "(", "h", "a", "l", ".", "m", "d", ")", " ", "|", "\n">>,
      <<"\n">> }
CsvLoopLines == { <<"E", "s", "s", "\n">>, <<"C", ",", "4", "\n">>, <<"\n">>, <<"C", ",", "4">>, <<"C", ",", "4", "\n", "\n">> }

PcieLoops == {"parse_pcie_db", "pcie::read_vendor", "pcie::read_device"}
UsbLoops == {"parse_usb_db", "usb::read_vendor"}
BugLoops == {"CodeCache::new"}
CsvLoops == {"lex_csv: sections", "lex_csv: records"}
LoopNames == PcieLoops \cup UsbLoops \cup BugLoops \cup CsvLoops
LoopLines(loop) ==
    IF loop \in PcieLoops THEN PciLoopLines
    ELSE IF loop \in UsbLoops THEN UsbLoopLines
    ELSE IF loop \in BugLoops THEN BugLoopLines
    ELSE CsvLoopLines

RECURSIVE LinesText(_)
LinesText(lines) ==
    IF Len(lines) = 0 THEN <<>> ELSE lines[1] \o LinesText(Tail(lines))

\* a pass through the loop of that name
LoopPassOf(loop, input) ==
    CASE loop = "parse_pcie_db" -> ParsePcieDbPass(input)
      [] loop = "pcie::read_vendor" -> ReadVendorPass(input)
      [] loop = "pcie::read_device" -> ReadDevicePass(input)
      [] loop = "parse_usb_db" -> ParseUsbDbPass(input)
      [] loop = "usb::read_vendor" -> UsbReadVendorPass(input)
      [] loop = "CodeCache::new" -> CodeCachePass(input)
      [] loop = "lex_csv: sections" -> LexSectionsPass(input)
      [] loop = "lex_csv: records" -> LexRecordsPass(input)

InitLoops ==
    /\ loop_name = "none"
    /\ loop_input = <<>>
    /\ loop_rest = <<>>
    /\ loop_done = FALSE
    /\ loop_passes = 0
    /\ IdleBut("loop")

\* a loop is entered with a text
LoopEnter ==
    /\ loop_name = "none"
    /\ loop_name' \in LoopNames
    /\ \E n \in 0..MaxLoopLines :
        \E lines \in [1..n -> LoopLines(loop_name')] : loop_input' = LinesText(lines)
    /\ loop_rest' = loop_input'
    /\ UNCHANGED <<loop_done, loop_passes, notLoopVars>>

\* one pass through the loop
LoopPassTo(pass) ==
    /\ loop_done' = pass.leaves
    /\ loop_rest' = IF pass.leaves THEN loop_rest ELSE pass.rest
LoopPass ==
    /\ loop_name # "none"
    /\ ~loop_done
    /\ loop_passes < MaxLoopPasses
    /\ loop_passes' = loop_passes + 1
    /\ LoopPassTo(LoopPassOf(loop_name, loop_rest))
    /\ UNCHANGED <<loop_name, loop_input, notLoopVars>>

NextLoops == LoopEnter \/ LoopPass

SpecLoops == InitLoops /\ [][NextLoops]_vars
\* a loop under way goes on to its next pass: weak fairness of LoopPass,
\* which is enabled as long as the loop is under way
LoopUnderWay == loop_name # "none" /\ ~loop_done /\ loop_passes < MaxLoopPasses
SpecLoopsFair == SpecLoops /\ ([]<>(~LoopUnderWay) \/ []<><<LoopPass>>_vars)

-----------------------------------------------------------------------------
(* CpuCache::new on an Intel and an AMD catalog, then any number of find   *)
(* calls.  The catalogs are sequences over a few cpus of the two           *)
(* databases; the inputs are names as the operating system reports them.   *)

MaxCpus == 2

IntelCpus ==
    {
      [name |-> <<"I", "n", "t", "e", "l", "reg", " ", "C", "o", "r", "e", "tm", " ", "i", "3", "-", "9", "1", "0", "0", "F", " ", "P", "r", "o", "c", "e", "s", "s", "o", "r">>,
       attributes |-> (<<"C", "o", "r", "e", "s">> :> <<"4">>)],
      [name |-> <<"I", "n", "t", "e", "l", "reg", " ", "C", "o", "r", "e", "tm", " ", "i", "7", " ", "p", "r", "o", "c", "e", "s", "s", "o", "r", " ", "1", "4", "7", "0", "0", "K">>,
       attributes |-> (<<"C", "o", "r", "e", "s">> :> <<"2", "0">>)],
      [name |-> <<"I", "n", "t", "e", "l", "reg", " ", "C", "o", "r", "e", "tm", " ", "i", "7", "-", "6", "2", "0", "M", " ", "P", "r", "o", "c", "e", "s", "s", "o", "r">>,
       attributes |-> (<<"C", "o", "r", "e", "s">> :> <<"2">> @@ <<"C", "a", "c", "h", "e">> :> <<"4", " ", "M", "B">>)],
      [name |-> <<"I", "n", "t", "e", "l", "reg", " ", "P", "e", "n", "t", "i", "u", "m", "reg", " ", "P", "r", "o", "c", "e", "s", "s", "o", "r", " ", "4", "4", "1", "5", "U">>,
       attributes |-> EmptyMap] }
AmdCpus ==
    {
      [name |-> <<"A", "M", "D", " ", "R", "y", "z", "e", "n", "tm", " ", "5", " ", "7", "5", "3", "0", "U">>,
       attributes |-> (<<"C", "o", "r", "e", "s">> :> <<"6">>)],
      [name |-> <<"A", "M", "D", " ", "R", "y", "z", "e", "n", "tm", " ", "5", " ", "4", "6", "5", "0", "G">>,
       attributes |-> (<<"C", "o", "r", "e", "s">> :> <<"6">> @@ <<"B", "o", "o", "s", "t">> :> <<"4", ".", "2", "G", "H", "z">>)],
      [name |-> <<"A", "M", "D", " ", "R", "y", "z", "e", "n", "tm", " ", "5", " ", "P", "R", "O", " ", "4", "6", "5", "0", "G">>,
       attributes |-> EmptyMap] }
RECURSIVE SeqsUpTo(_, _)
SeqsUpTo(S, n) ==
    IF n = 0 THEN {<<>>}
    ELSE SeqsUpTo(S, n - 1) \cup {Append(q, x) : q \in SeqsUpTo(S, n - 1), x \in S}
CpuInputs ==
    {
      <<"I", "n", "t", "e", "l", "(", "R", ")", " ", "C", "o", "r", "e", "(", "T", "M", ")", " ", "i", "3", "-", "9", "1", "0", "0", "F", " ", "C", "P", "U", " ", "@", " ", "3", ".", "6", "0", "G", "H", "z">>,
      <<"I", "n", "t", "e", "l", "(", "R", ")", " ", "C", "o", "r", "e", "(", "T", "M", ")", " ", "i", "7", "-", "1", "4", "7", "0", "0", "K">>,
      <<"I", "n", "t", "e", "l", "(", "R", ")", " ", "C", "o", "r", "e", "(", "T", "M", ")", " ", "i", "7", " ", "C", "P", "U", " ", "M", " ", "6", "2", "0", " ", "@", " ", "2", ".", "6", "7", "G", "h", "z">>,
      <<"I", "n", "t", "e", "l", "(", "R", ")", " ", "P", "e", "n", "t", "i", "u", "m", "(", "R", ")", " ", "C", "P", "U", " ", "4", "4", "1", "5", "U", " ", "@", " ", "2", ".", "3", "0", "G", "H", "z">>,
      <<"I", "n", "t", "e", "l", "(", "R", ")", " ", "X", "e", "o", "n", "(", "R", ")", " ", "C", "P", "U", " ", "E", "5", "-", "2", "6", "7", "0", " ", "0", " ", "@", " ", "2", ".", "6", "0", "G", "H", "z">>,
      <<"A", "M", "D", " ", "R", "y", "z", "e", "n", " ", "5", " ", "5", "6", "0", "0", " ", "6", "-", "C", "o", "r", "e", " ", "P", "r", "o", "c", "e", "s", "s", "o", "r">>,
      <<"A", "M", "D", " ", "R", "y", "z", "e", "n", " ", "5", " ", "7", "5", "3", "0", "U", " ", "w", "i", "t", "h", " ", "R", "a", "d", "e", "o", "n", " ", "G", "r", "a", "p", "h", "i", "c", "s">>,
      <<"A", "M", "D", " ", "R", "y", "z", "e", "n", " ", "5", " ", "P", "R", "O", " ", "4", "6", "5", "0", "G", " ", "w", "i", "t", "h", " ", "R", "a", "d", "e", "o", "n", " ", "G", "r", "a", "p", "h", "i", "c", "s">>,
      <<"A", "M", "D", " ", "R", "y", "z", "e", "n", " ", "7", " ", "5", "8", "0", "0", "X", " ", "8", "-", "C", "o", "r", "e", " ", "P", "r", "o", "c", "e", "s", "s", "o", "r">>,
      <<"P", "e", "n", "t", "i", "u", "m", " ", "4", "4", "1", "5", "U", " ", "(", "n", "o", "t", " ", "A", "M", "D", ")">>,
      <<"I", "n", "t", "e", "l", "(", "R", ")", " ", "C", "o", "r", "e", "(", "T", "M", ")", " ", "i", "7", "-", "8", "7", "0", "0", " ", "C", "P", "U", " ", "@", " ", "3", ".", "2", "0", "G", "H", "z">>,
      <<"A", "M", "D", " ", "R", "y", "z", "e", "n", " ", "5", " ", "4", "6", "5", "0", "G", " ", "w", "i", "t", "h", " ", "R", "a", "d", "e", "o", "n", " ", "G", "r", "a", "p", "h", "i", "c", "s">>,
      <<"A", "M", "D", " ", "P", "R", "O", " ", "I", "n", "t", "e", "l", " ", "i", "7", " ", "M", " ", "5", "2", "0">>,
      <<>> }

InitCpu ==
    /\ cpu_cache = NoCpuCache
    /\ cpu_input = <<>>
    /\ cpu_result = NotRun
    /\ IdleBut("cpu")

\* CpuCache::new
CpuNew ==
    /\ cpu_cache = NoCpuCache
    /\ \E intel_cpus \in SeqsUpTo(IntelCpus, MaxCpus), amd_cpus \in SeqsUpTo(AmdCpus, MaxCpus) :
        cpu_cache' = CpuCacheNew(intel_cpus, amd_cpus)
    /\ UNCHANGED <<cpu_input, cpu_result, notCpuVars>>

\* CpuCache::find; it leaves the cache as it is, so that one call on every
\* cache shows every outcome
CpuFind ==
    /\ cpu_cache.state = "built"
    /\ cpu_result = NotRun
    /\ \E input \in CpuInputs :
        /\ cpu_input' = input
        /\ cpu_result' = CpuCacheFind(cpu_cache, input)
    /\ UNCHANGED <<cpu_cache, notCpuVars>>

NextCpu == CpuNew \/ CpuFind

SpecCpu == InitCpu /\ [][NextCpu]_vars

-----------------------------------------------------------------------------
(* One cache built from the whole of the two catalogs, and a row of find   *)
(* calls on it, as in tests::search_resilience; cpu_calls keeps the calls. *)

MaxCalls == 2

\* the cpus of a catalog in some order
WholeCatalog(S) ==
    CHOOSE q \in [1..Cardinality(S) -> S] : \A i, j \in DOMAIN q : i # j => q[i] # q[j]

InitCalls == CpuIdle /\ IdleBut("cpu")

\* CpuCache::new on the whole catalogs
CpuNewWhole ==
    /\ cpu_cache = NoCpuCache
    /\ cpu_cache' = CpuCacheNew(WholeCatalog(IntelCpus), WholeCatalog(AmdCpus))
    /\ UNCHANGED <<callsVars, notCallsVars>>

\* CpuCache::find on the cache the calls before have left
CallFind ==
    /\ cpu_cache.state = "built"
    /\ Len(cpu_calls) < MaxCalls
    /\ \E input \in CpuInputs :
        /\ cpu_calls' = Append(cpu_calls, [input |-> input,
                                           result |-> CpuCacheFind(cpu_cache, input)])
        /\ cpu_cache' = FindLeaves(cpu_cache, input)
    /\ UNCHANGED <<cpu_callers, notCallsVars>>

NextCalls == CpuNewWhole \/ CallFind

SpecCalls == InitCalls /\ [][NextCalls]_vars

-----------------------------------------------------------------------------
(* find_model and generate_index_entry on their own, on names put together *)
(* from a few tokens, on the names of the catalogs and on reported names.  *)

MaxTokens == 3

ModelTokens ==
    { <<"I", "n", "t", "e", "l">>,
      <<"A", "M", "D">>,
      <<"P", "R", "O">>,
      <<"i", "7">>,
      <<"1", "4", "7", "0", "0", "K">>,
      <<"i", "5", "-", "9", "4", "0", "0", "F">>,
      <<"3", "4", "0", "0", "G">>,
      <<"(", "R", ")", "(", "T", "M", ")">>,
      <<"I", "n", "t", "e", "l", "(", "R", ")">>,
      <<"M">>,
      <<"5", "2", "0">>,
      <<>> }
\* the tokens with one space between them
RECURSIVE Join(_)
Join(tokens) ==
    IF Len(tokens) = 1 THEN tokens[1] ELSE tokens[1] \o <<" ">> \o Join(Tail(tokens))
ReportedNames ==
    { <<"A", "M", "D", " ", "R", "y", "z", "e", "n", " ", "5", " ", "3", "4", "0", "0", "G", " ", "w", "i", "t", "h", " ", "R", "a", "d", "e", "o", "n", " ", "V", "e", "g", "a", " ", "G", "r", "a", "p", "h", "i", "c", "s">>,
      <<"I", "n", "t", "e", "l", "(", "R", ")", " ", "C", "o", "r", "e", "(", "T", "M", ")", " ", "i", "5", "-", "9", "4", "0", "0", "F", " ", "C", "P", "U", " ", "@", " ", "2", ".", "9", "0", "G", "H", "z">>,
      <<"I", "n", "t", "e", "l", "reg", " ", "C", "o", "r", "e", "tm", " ", "i", "9", " ", "p", "r", "o", "c", "e", "s", "s", "o", "r", " ", "1", "4", "9", "0", "0", "K", "F">>,
      <<"I", "n", "t", "e", "l", "(", "R", ")", " ", "C", "o", "r", "e", "(", "T", "M", ")", " ", "i", "9", "-", "1", "4", "9", "0", "0", "K", "F">>,
      <<"I", "n", "t", "e", "l", " ", "A", "M", "D", " ", "P", "R", "O", " ", "i", "7", " ", "1", "4", "7", "0", "0", "K">>,
      <<"A", "M", "D", " ", "R", "y", "z", "e", "n", " ", "9", " ", "P", "R", "O", " ", "1", "4", " ", "i", "7", " ", "I", "n", "t", "e", "l">>,
      <<"I", "n", "t", "e", "l", "(", "R", ")", " ", "C", "o", "r", "e", "(", "T", "M", ")", " ", "i", "5", " ", "C", "P", "U", " ", "M", " ", "5", "2", "0", " ", "@", " ", "2", ".", "4", "0", "G", "H", "z">>,
      <<"I", "n", "t", "e", "l", "(", "R", ")", " ", "C", "e", "l", "e", "r", "o", "n", "(", "R", ")", " ", "C", "P", "U", " ", "M", " ", "9", "0", "0", " ", "@", " ", "2", ".", "2", "0", "G", "H", "z">>,
      <<"I", "n", "t", "e", "l", " ", "i", "7", " ", "M", " ", "1", "4", "0">> }
ModelInputs ==
    {Join(tokens) : tokens \in SeqsUpTo(ModelTokens, MaxTokens) \ {<<>>}}
        \cup ReportedNames \cup CpuInputs
        \cup {cpu.name : cpu \in IntelCpus \cup AmdCpus}

InitModel ==
    /\ model_input \in ModelInputs
    /\ model_found = NotRun
    /\ model_entry = NotRun
    /\ IdleBut("model")

\* find_model: the best fit its loop ends with, and what it returns
ModelFind ==
    /\ model_found = NotRun
    /\ model_found' = Ok(BestFit(Split(model_input), <<>>, -10), FindModel(model_input))
    /\ UNCHANGED <<model_input, model_entry, notModelVars>>

\* generate_index_entry with an index of 0
ModelGenerate ==
    /\ model_entry = NotRun
    /\ model_entry' = GenerateIndexEntry(model_input, 0)
    /\ UNCHANGED <<model_input, model_found, notModelVars>>

NextModel == ModelFind \/ ModelGenerate

SpecModel == InitModel /\ [][NextModel]_vars

-----------------------------------------------------------------------------
(* The server: one AppState built at start, and requests to the cpu        *)
(* handler served side by side. axum's State extractor hands every call of *)
(* the handler a clone of the AppState; find runs on that clone.           *)

\* a handler's state without the caches of the server
StateExtractEmpty(shared) == NoCpuCache
\* State<AppState>: the handler's own clone of the state of the server
StateExtract(shared) == shared

InitServe == CpuIdle /\ IdleBut("cpu")

\* a request arrives: the extractors give the handler its state and query
Receive(c) ==
    /\ cpu_cache.state = "built"
    /\ cpu_callers[c].pc = "idle"
    /\ \E input \in CpuInputs :
        cpu_callers' = [cpu_callers EXCEPT ![c] =
            [pc |-> "extracted", input |-> input,
             state |-> StateExtract(cpu_cache), result |-> NotRun]]
    /\ UNCHANGED <<cpu_cache, cpu_calls, notCallsVars>>

\* get_cpu_handler: find on the handler's state
GetCpuHandler(c) ==
    /\ cpu_callers[c].pc = "extracted"
    /\ cpu_callers' = [cpu_callers EXCEPT ![c] =
            [pc |-> "done", input |-> @.input,
             state |-> FindLeaves(@.state, @.input),
             result |-> CpuCacheFind(@.state, @.input)]]
    /\ UNCHANGED <<cpu_cache, cpu_calls, notCallsVars>>

\* the response is sent and the handler's state dropped
Respond(c) ==
    /\ cpu_callers[c].pc = "done"
    /\ cpu_callers' = [cpu_callers EXCEPT ![c] = IdleCaller]
    /\ UNCHANGED <<cpu_cache, cpu_calls, notCallsVars>>

NextServe ==
    \/ CpuNewWhole
    \/ \E c \in Callers : Receive(c)
    \/ \E c \in Callers : GetCpuHandler(c)
    \/ \E c \in Callers : Respond(c)

SpecServe == InitServe /\ [][NextServe]_vars

-----------------------------------------------------------------------------
(* Claims about the identifier parsers *)

\* PCI\VEN_<v>&DEV_<d> with v and d four hex digits each
PciWellFormed(p) ==
    /\ p.head = PciHead /\ p.v \in HexTexts /\ p.sep = <<"&">>
    /\ p.dtag = DevTag /\ p.d \in HexTexts
\* USB\VID_<v>&PID_<p> with v and p four hex digits each
UsbWellFormed(p) ==
    /\ p.head = UsbHead /\ p.v \in HexTexts /\ p.sep = <<"&">>
    /\ p.dtag = PidTag /\ p.d \in HexTexts
PciExpected(p, ssid) == Ok(<<>>, <<ValueOf(p.v), ValueOf(p.d), ssid>>)

\* C1, as stated: PCI\VEN_<v>&DEV_<d>&SUBSYS_<s><rest> gives (v, d, Some(s))
\* for every rest, and PCI\VEN_<v>&DEV_<d><rest> with no SUBSYS segment in
\* rest gives (v, d, None) for every rest.
C1_AnyTrailingText ==
    (pci_ident # NotRun /\ PciWellFormed(id_input)) =>
        /\ (IsSome(id_input.ss) /\ Unwrap(id_input.ss) \in HexTexts) =>
               pci_ident = PciExpected(id_input, Some(ValueOf(Unwrap(id_input.ss))))
        /\ (id_input.ss = None /\ ~Contains(id_input.tail, SubsysTag)) =>
               pci_ident = PciExpected(id_input, None)

\* C1, amended: PCI\VEN_<v>&DEV_<d>&SUBSYS_<s><rest> gives (v, d, Some(s)) for
\* every rest; PCI\VEN_<v>&DEV_<d><rest> gives (v, d, None) for every rest
\* that does not begin with "&SU", and an error for a rest that begins with
\* "&SU" and is not a SUBSYS segment.
C1_TrailingTextIgnored ==
    (pci_ident # NotRun /\ PciWellFormed(id_input)) =>
        /\ (IsSome(id_input.ss) /\ Unwrap(id_input.ss) \in HexTexts) =>
               pci_ident = PciExpected(id_input, Some(ValueOf(Unwrap(id_input.ss))))
        /\ (id_input.ss = None /\ ~StartsWith(id_input.tail, <<"&", "S", "U">>)) =>
               pci_ident = PciExpected(id_input, None)
        /\ (id_input.ss = None /\ StartsWith(id_input.tail, <<"&", "S", "U">>)
                /\ ~StartsWith(id_input.tail, SubsysTag)) =>
               pci_ident = Err

\* the parser has run on PCI\VEN_10eC&DEV_5678&SUBSYS_a0Bf0000&REV_00
C1_Witness ==
    /\ pci_ident.kind = "Ok"
    /\ PciWellFormed(id_input)
    /\ id_input.ss = Some(<<"a", "0", "B", "f">>)
    /\ id_input.tail = <<"0", "0", "0", "0", "&", "R", "E", "V", "_", "0", "0">>

\* C2: USB\VID_<v>&PID_<p><rest> gives (v, p) whatever follows the product id.
C2_UsbTrailingTextIgnored ==
    (usb_ident # NotRun /\ UsbWellFormed(id_input)) =>
        usb_ident = Ok(<<>>, <<ValueOf(id_input.v), ValueOf(id_input.d)>>)

\* the parser has run on USB\VID_10eC&PID_5678\9479493
C2_Witness ==
    /\ usb_ident.kind = "Ok"
    /\ UsbWellFormed(id_input)
    /\ id_input.ss = None
    /\ id_input.tail = <<"\\", "9", "4", "7", "9", "4", "9", "3">>

\* a literal prefix is missing, or an id field is too short or not hex
PciMalformed(p) ==
    \/ p.head # PciHead \/ p.dtag # DevTag
    \/ p.v \notin HexTexts \/ p.d \notin HexTexts
    \/ (IsSome(p.ss) /\ Unwrap(p.ss) \notin HexTexts)
UsbMalformed(p) ==
    \/ p.head # UsbHead \/ p.dtag # PidTag
    \/ p.v \notin HexTexts \/ p.d \notin HexTexts

\* C3: both identifier parsers return an error, and never panic, when a
\* required literal prefix is missing or an id field is absent, too short or
\* not hex.
C3_MalformedGivesError ==
    /\ (pci_ident # NotRun /\ PciMalformed(id_input)) => pci_ident = Err
    /\ (usb_ident # NotRun /\ UsbMalformed(id_input)) => usb_ident = Err

-----------------------------------------------------------------------------
(* Claims about the device caches *)

VendorIds(vendors) == {vendors[k].id : k \in DOMAIN vendors}

\* C4: find returns an error exactly when the identifier fails to parse; an
\* identifier that parses gives Ok whatever the catalog holds, with None for
\* a vendor or a device that the catalog does not hold.
C4_ErrorExactlyOnParseFailure ==
    /\ pcie_result # NotRun =>
        LET parsed == PcieParseDeviceIdentifier(IdString(pcie_input))
        IN /\ (pcie_result = Err) <=> ~IsOk(parsed)
           /\ IsOk(parsed) => IsOk(pcie_result)
           /\ (IsOk(parsed) /\ parsed.out[1] \notin VendorIds(pcie_cache.vendors)) =>
                  pcie_result.out = <<None, None, None>>
           /\ (IsOk(parsed) /\ parsed.out[1] \in VendorIds(pcie_cache.vendors)
                  /\ parsed.out[2] \notin
                       VendorIds(pcie_cache.vendors[parsed.out[1]].devices)) =>
                  (IsSome(pcie_result.out[1]) /\ pcie_result.out[2] = None)
    /\ usb_result # NotRun =>
        LET parsed == UsbParseDeviceIdentifier(IdString(usb_input))
        IN /\ (usb_result = Err) <=> ~IsOk(parsed)
           /\ IsOk(parsed) => IsOk(usb_result)
           /\ (IsOk(parsed) /\ parsed.out[1] \notin VendorIds(usb_cache.vendors)) =>
                  usb_result.out = <<None, None>>

\* C5: in every Ok result the device is Some only if the vendor is, the
\* subsystem only if the device is, the vendor has the vendor id of the
\* identifier, and the device has the device id of the identifier and is a
\* device of the returned vendor.
C5_LevelsNest ==
    /\ IsOk(pcie_result) =>
        LET vendor == pcie_result.out[1]
            device == pcie_result.out[2]
            subsystem == pcie_result.out[3]
        IN /\ IsSome(device) => IsSome(vendor)
           /\ IsSome(subsystem) => IsSome(device)
           /\ IsSome(vendor) => Unwrap(vendor).id = ValueOf(pcie_input.v)
           /\ IsSome(device) =>
                  /\ Unwrap(device).id = ValueOf(pcie_input.d)
                  /\ \E k \in DOMAIN Unwrap(vendor).devices :
                         Unwrap(vendor).devices[k] = Unwrap(device)
    /\ IsOk(usb_result) =>
        LET vendor == usb_result.out[1]
            device == usb_result.out[2]
        IN /\ IsSome(device) => IsSome(vendor)
           /\ IsSome(vendor) => Unwrap(vendor).id = ValueOf(usb_input.v)
           /\ IsSome(device) =>
                  /\ Unwrap(device).id = ValueOf(usb_input.d)
                  /\ \E k \in DOMAIN Unwrap(vendor).devices :
                         Unwrap(vendor).devices[k] = Unwrap(device)

\* find has returned a vendor and one of its devices, the vendor holding
\* another device as well
C5_Witness ==
    /\ IsOk(pcie_result)
    /\ IsSome(pcie_result.out[2])
    /\ Cardinality(DOMAIN Unwrap(pcie_result.out[1]).devices) = 2

\* C6: when find has located the device, the subsystem returned is the entry
\* of the device's subsystem list whose id is the subsystem id parsed from
\* the identifier, and None when there is no such entry or no SUBSYS segment.
C6_SubsystemBySubsystemId ==
    (IsOk(pcie_result) /\ IsSome(pcie_result.out[2])) =>
        pcie_result.out[3] =
            IF IsSome(pcie_input.ss)
            THEN FirstWhere(Unwrap(pcie_result.out[2]).subsystems,
                            LAMBDA sub : sub.id = ValueOf(Unwrap(pcie_input.ss)))
            ELSE None

\* C7: once the cache is built from a text of the grammar, find on an
\* identifier naming a vendor of the text and a device written under it
\* returns that vendor with its name and its devices, and that device with
\* its name and the subsystems written under it, in source order.
C7_RoundTrip ==
    /\ (pcie_cache.state # "none" /\ pci_lines # <<>>) => pcie_cache.state = "built"
    /\ (pcie_result # NotRun /\ pcie_input.v \in HexTexts /\ pcie_input.head = PciHead) =>
        \A i \in 1..Len(pci_lines) : \A j \in 1..Len(pci_lines[i].devices) :
            (/\ pci_lines[i].id = ValueOf(pcie_input.v)
             /\ pci_lines[i].devices[j].id = ValueOf(pcie_input.d)) =>
                /\ IsOk(pcie_result)
                /\ IsSome(pcie_result.out[1])
                /\ Unwrap(pcie_result.out[1]).id = pci_lines[i].id
                /\ Unwrap(pcie_result.out[1]).name = pci_lines[i].name
                /\ VendorIds(Unwrap(pcie_result.out[1]).devices) = Ids(pci_lines[i].devices)
                /\ pcie_result.out[2] = Some(pci_lines[i].devices[j])

\* find has returned a device written with two subsystem lines under it
C7_Witness ==
    /\ IsOk(pcie_result)
    /\ IsSome(pcie_result.out[2])
    /\ Len(Unwrap(pcie_result.out[2]).subsystems) = 2
    /\ Len(pci_lines) = 1

\* find has returned the device of the second vendor of a text that holds a
\* comment line
C7_WitnessComment ==
    /\ IsOk(pcie_result)
    /\ IsSome(pcie_result.out[2])
    /\ Len(pci_lines) = 2
    /\ Contains(pci_text, PciComment)

-----------------------------------------------------------------------------
(* Claims about the bugcheck cache *)

\* the first row that starts with "| 0x000", 0 when there is none
FirstTableRow ==
    IF \E i \in 1..Len(bug_rows) : bug_rows[i].starts
    THEN CHOOSE i \in 1..Len(bug_rows) :
             bug_rows[i].starts /\ \A j \in 1..(i - 1) : ~bug_rows[j].starts
    ELSE 0
\* the run of consecutive well-formed rows that starts there
RowRun ==
    IF FirstTableRow = 0 THEN {}
    ELSE {i \in FirstTableRow..Len(bug_rows) : \A j \in FirstTableRow..i : bug_rows[j].ok}

\* C8: once the cache is built, get(c) is Some((name, url)) of a row with
\* code c of the run of consecutive well-formed rows that starts at the
\* first "| 0x000" row, and None for a code no row of the run has: rows
\* after the first row that is not well-formed are not loaded.
C8_RunOfWellFormedRows ==
    bug_result # NotRun =>
        /\ IsOk(bug_result)
        /\ IF \E i \in RowRun : bug_rows[i].code = bug_code
           THEN \E i \in RowRun :
                    /\ bug_rows[i].code = bug_code
                    /\ bug_result.out = Some(<<bug_rows[i].name, bug_rows[i].url>>)
           ELSE bug_result.out = None

-----------------------------------------------------------------------------
(* Claims about CpuCache::find *)

\* what is to be expected of the inputs and of the catalog names: whether
\* the text holds "AMD", and the model field generated for it
CpuTexts ==
    {
      [text |-> <<"I", "n", "t", "e", "l", "(", "R", ")", " ", "C", "o", "r", "e", "(", "T", "M", ")", " ", "i", "3", "-", "9", "1", "0", "0", "F", " ", "C", "P", "U", " ", "@", " ", "3", ".", "6", "0", "G", "H", "z">>,
       amd |-> FALSE, model |-> <<"i", "3">>],
      [text |-> <<"I", "n", "t", "e", "l", "(", "R", ")", " ", "C", "o", "r", "e", "(", "T", "M", ")", " ", "i", "7", "-", "1", "4", "7", "0", "0", "K">>,
       amd |-> FALSE, model |-> <<"i", "7">>],
      [text |-> <<"I", "n", "t", "e", "l", "(", "R", ")", " ", "C", "o", "r", "e", "(", "T", "M", ")", " ", "i", "7", " ", "C", "P", "U", " ", "M", " ", "6", "2", "0", " ", "@", " ", "2", ".", "6", "7", "G", "h", "z">>,
       amd |-> FALSE, model |-> <<"i", "7">>],
      [text |-> <<"I", "n", "t", "e", "l", "(", "R", ")", " ", "P", "e", "n", "t", "i", "u", "m", "(", "R", ")", " ", "C", "P", "U", " ", "4", "4", "1", "5", "U", " ", "@", " ", "2", ".", "3", "0", "G", "H", "z">>,
       amd |-> FALSE, model |-> <<"U">>],
      [text |-> <<"I", "n", "t", "e", "l", "(", "R", ")", " ", "X", "e", "o", "n", "(", "R", ")", " ", "C", "P", "U", " ", "E", "5", "-", "2", "6", "7", "0", " ", "0", " ", "@", " ", "2", ".", "6", "0", "G", "H", "z">>,
       amd |-> FALSE, model |-> <<"E", "5">>],
      [text |-> <<"A", "M", "D", " ", "R", "y", "z", "e", "n", " ", "5", " ", "5", "6", "0", "0", " ", "6", "-", "C", "o", "r", "e", " ", "P", "r", "o", "c", "e", "s", "s", "o", "r">>,
       amd |-> TRUE, model |-> <<>>],
      [text |-> <<"A", "M", "D", " ", "R", "y", "z", "e", "n", " ", "5", " ", "7", "5", "3", "0", "U", " ", "w", "i", "t", "h", " ", "R", "a", "d", "e", "o", "n", " ", "G", "r", "a", "p", "h", "i", "c", "s">>,
       amd |-> TRUE, model |-> <<"U">>],
      [text |-> <<"A", "M", "D", " ", "R", "y", "z", "e", "n", " ", "5", " ", "P", "R", "O", " ", "4", "6", "5", "0", "G", " ", "w", "i", "t", "h", " ", "R", "a", "d", "e", "o", "n", " ", "G", "r", "a", "p", "h", "i", "c", "s">>,
       amd |-> TRUE, model |-> <<"P", "R", "O", " ", "4", "6", "5", "0", "G">>],
      [text |-> <<"A", "M", "D", " ", "R", "y", "z", "e", "n", " ", "7", " ", "5", "8", "0", "0", "X", " ", "8", "-", "C", "o", "r", "e", " ", "P", "r", "o", "c", "e", "s", "s", "o", "r">>,
       amd |-> TRUE, model |-> <<"X">>],
      [text |-> <<"P", "e", "n", "t", "i", "u", "m", " ", "4", "4", "1", "5", "U", " ", "(", "n", "o", "t", " ", "A", "M", "D", ")">>,
       amd |-> TRUE, model |-> <<"U">>],
      [text |-> <<>>,
       amd |-> FALSE, model |-> <<>>],
      [text |-> <<"I", "n", "t", "e", "l", "reg", " ", "C", "o", "r", "e", "tm", " ", "i", "3", "-", "9", "1", "0", "0", "F", " ", "P", "r", "o", "c", "e", "s", "s", "o", "r">>,
       amd |-> FALSE, model |-> <<"i", "3">>],
      [text |-> <<"I", "n", "t", "e", "l", "reg", " ", "C", "o", "r", "e", "tm", " ", "i", "7", " ", "p", "r", "o", "c", "e", "s", "s", "o", "r", " ", "1", "4", "7", "0", "0", "K">>,
       amd |-> FALSE, model |-> <<"i", "7">>],
      [text |-> <<"I", "n", "t", "e", "l", "reg", " ", "C", "o", "r", "e", "tm", " ", "i", "7", "-", "6", "2", "0", "M", " ", "P", "r", "o", "c", "e", "s", "s", "o", "r">>,
       amd |-> FALSE, model |-> <<"i", "7">>],
      [text |-> <<"I", "n", "t", "e", "l", "reg", " ", "P", "e", "n", "t", "i", "u", "m", "reg", " ", "P", "r", "o", "c", "e", "s", "s", "o", "r", " ", "4", "4", "1", "5", "U">>,
       amd |-> FALSE, model |-> <<"U">>],
      [text |-> <<"A", "M", "D", " ", "R", "y", "z", "e", "n", "tm", " ", "5", " ", "7", "5", "3", "0", "U">>,
       amd |-> TRUE, model |-> <<"U">>],
      [text |-> <<"A", "M", "D", " ", "R", "y", "z", "e", "n", "tm", " ", "5", " ", "4", "6", "5", "0", "G">>,
       amd |-> TRUE, model |-> <<"G">>],
      [text |-> <<"I", "n", "t", "e", "l", "(", "R", ")", " ", "C", "o", "r", "e", "(", "T", "M", ")", " ", "i", "7", "-", "8", "7", "0", "0", " ", "C", "P", "U", " ", "@", " ", "3", ".", "2", "0", "G", "H", "z">>,
       amd |-> FALSE, model |-> <<"i", "7">>],
      [text |-> <<"A", "M", "D", " ", "R", "y", "z", "e", "n", " ", "5", " ", "4", "6", "5", "0", "G", " ", "w", "i", "t", "h", " ", "R", "a", "d", "e", "o", "n", " ", "G", "r", "a", "p", "h", "i", "c", "s">>,
       amd |-> TRUE, model |-> <<"G">>],
      [text |-> <<"A", "M", "D", " ", "R", "y", "z", "e", "n", "tm", " ", "5", " ", "P", "R", "O", " ", "4", "6", "5", "0", "G">>,
       amd |-> TRUE, model |-> <<"P", "R", "O", " ", "4", "6", "5", "0", "G">>],
      [text |-> <<"A", "M", "D", " ", "P", "R", "O", " ", "I", "n", "t", "e", "l", " ", "i", "7", " ", "M", " ", "5", "2", "0">>,
       amd |-> TRUE, model |-> <<"P", "R", "O", " ", "5", "2", "0">>] }
Expected(text) == CHOOSE t \in CpuTexts : t.text = text
\* the catalog and the index an input is to be answered from
CatalogFor(text) ==
    IF Expected(text).amd THEN cpu_cache.amd_cpus ELSE cpu_cache.intel_cpus
IndexFor(text) ==
    IF Expected(text).amd THEN cpu_cache.amd_index ELSE cpu_cache.intel_index
\* the positions of the catalog whose name has the model field of the input
SameModel(text) ==
    {i \in 1..Len(CatalogFor(text)) :
        Expected(CatalogFor(text)[i].name).model = Expected(text).model}

\* C9: find answers from the AMD index and catalog if and only if the input
\* contains "AMD", and from the Intel ones otherwise; on success the cpu
\* returned has the name and exactly the attributes of the catalog entry at
\* the position stored in an index entry of the selected index.
C9_CatalogByAmd ==
    (cpu_result # NotRun /\ IsOk(cpu_result)) =>
        \E k \in 1..Len(IndexFor(cpu_input)) :
            LET entry == IndexFor(cpu_input)[k]
                cpu == CatalogFor(cpu_input)[entry.index + 1]
            IN /\ entry.model = Expected(cpu_input).model
               /\ cpu_result.out.name = cpu.name
               /\ cpu_result.out.attributes = cpu.attributes

\* find has answered an input that holds "AMD" after other words, from a
\* cache whose Intel catalog holds a cpu with the model field of the input
C9_Witness ==
    /\ IsOk(cpu_result)
    /\ cpu_input = <<"P", "e", "n", "t", "i", "u", "m", " ", "4", "4", "1", "5", "U", " ", "(", "n", "o", "t", " ", "A", "M", "D", ")">>
    /\ \E i \in 1..Len(cpu_cache.intel_index) :
           cpu_cache.intel_index[i].model = <<"U">>

\* C10: find succeeds if and only if an entry of the selected index has the
\* model field generated for the input; otherwise the error is "No close
\* matches found"; the cpu returned is one whose model field is that of
\* the input.
C10_ModelMustMatch ==
    cpu_result # NotRun =>
        /\ IsOk(cpu_result) <=> SameModel(cpu_input) # {}
        /\ IsOk(cpu_result) <=>
               \E k \in 1..Len(IndexFor(cpu_input)) :
                   IndexFor(cpu_input)[k].model = Expected(cpu_input).model
        /\ ~IsOk(cpu_result) => cpu_result = ErrWith("No close matches found")
        /\ IsOk(cpu_result) =>
               \E i \in SameModel(cpu_input) : cpu_result.out = CatalogFor(cpu_input)[i]

\* find has failed on a selected index of two entries, neither with the
\* model field of the input
C10_Witness ==
    /\ cpu_result = ErrWith("No close matches found")
    /\ Len(IndexFor(cpu_input)) = 2

\* the index entry generated for the input of the last find
QueryEntry == GenerateIndexEntry(cpu_input, 0).out
\* the places of an index whose entry has the model of the query
CandidatesIn(index, query) == {k \in 1..Len(index) : index[k].model = query.model}
Candidates == CandidatesIn(IndexFor(cpu_input), QueryEntry)
\* the score the resolution rules give an entry
RuleScoreOf(entry, query) ==
    0 - (IF entry.prefix # query.prefix THEN 10 ELSE 0)
      - (IF entry.suffix # query.suffix THEN 10 ELSE 0)
      + 5 * Cardinality({t \in query.tags : t \in entry.tags})
RuleScore(k) == RuleScoreOf(IndexFor(cpu_input)[k], QueryEntry)
\* the first of the candidates with the highest score
WinnerIn(index, query, scores) ==
    CHOOSE k \in DOMAIN scores :
        \A j \in DOMAIN scores : scores[k] > scores[j] \/ (scores[k] = scores[j] /\ k <= j)
WinnerOf(index, query) ==
    WinnerIn(index, query,
             [k \in CandidatesIn(index, query) |-> RuleScoreOf(index[k], query)])
\* find returned the cpu of the winner
ReturnedWinner(index, query) ==
    /\ CandidatesIn(index, query) # {}
    /\ cpu_result.out = CatalogFor(cpu_input)[index[WinnerOf(index, query)].index + 1]

\* C11: among the index entries with the model of the input a candidate
\* scores 0, minus 10 for a different prefix, minus 10 for a different
\* suffix, plus 5 for every tag in both tag sets; find returns the cpu of
\* the candidate with the highest score, the first one in catalog order
\* among those with that score.
C11_HighestScoreFirstWins ==
    IsOk(cpu_result) => ReturnedWinner(IndexFor(cpu_input), QueryEntry)

\* find has chosen between two different cpus of the same model and the
\* same score
C11_Witness ==
    /\ IsOk(cpu_result)
    /\ Cardinality(Candidates) = 2
    /\ RuleScore(1) = RuleScore(2)
    /\ CatalogFor(cpu_input)[1] # CatalogFor(cpu_input)[2]

\* find has chosen the second of two candidates, the one with the higher score
C11_WitnessSecond ==
    /\ IsOk(cpu_result)
    /\ Cardinality(Candidates) = 2
    /\ RuleScore(2) > RuleScore(1)

TokensOf(input) == Split(input)
RuleTokenScore(token) ==
    2 * Cardinality({i \in 1..Len(token) : IsAsciiDigit(token[i])})
      - 4 * Cardinality({i \in 1..Len(token) : token[i] \in {".", "(", ")"}})
\* the first position of the highest score
FirstMaximum(scores) ==
    CHOOSE k \in 1..Len(scores) :
        /\ \A j \in 1..Len(scores) : scores[j] <= scores[k]
        /\ \A j \in 1..(k - 1) : scores[j] < scores[k]
FirstBestToken(tokens) ==
    tokens[FirstMaximum([k \in 1..Len(tokens) |-> RuleTokenScore(tokens[k])])]
\* C13: before the edge cases, find_model has selected the first token of
\* the input, split at single spaces, that has the highest score of all
\* its tokens, a token scoring twice its digits less four times its '.',
\* '(' and ')' characters.
C13_FirstHighestToken ==
    model_found # NotRun => model_found.rest = FirstBestToken(TokensOf(model_input))


\* The fields the rule gives a model token: the text before its first '-',
\* the leading digits of what follows, and what is left
DashAt(token) == Find(token, <<"-">>)
RulePrefix(token) == IF DashAt(token) = 0 THEN <<>> ELSE Take(token, DashAt(token) - 1)
RuleRemainder(token) == IF DashAt(token) = 0 THEN token ELSE Drop(token, DashAt(token))
RuleModel(token) == Take(RuleRemainder(token), DigitCount(RuleRemainder(token)))
RuleSuffix(token) == Drop(RuleRemainder(token), DigitCount(RuleRemainder(token)))
RuleFields(token) ==
    [prefix |-> RulePrefix(token), model |-> RuleModel(token), suffix |-> RuleSuffix(token)]
FieldsOf(entry) == [prefix |-> entry.prefix, model |-> entry.model, suffix |-> entry.suffix]

\* C14: the entry generate_index_entry returns has as prefix the text of
\* the model token before its first '-' (empty without a '-'), as model the
\* leading run of ASCII digits of the remainder and as suffix what follows
\* that run: "i5-9400F" gives "i5", "9400", "F".
C14_PrefixModelSuffix ==
    IsOk(model_entry) => FieldsOf(model_entry.out) = RuleFields(FindModel(model_input))

\* a model token without a digit at the start of what follows its prefix
NoLeadingDigit(token) == RuleModel(token) = <<>>

\* C15: generate_index_entry returns an error for every name whose model
\* token has no leading ASCII digit after the prefix.
C15_ErrorWithoutLeadingDigit ==
    (model_entry # NotRun /\ NoLeadingDigit(FindModel(model_input)))
        => ~IsOk(model_entry)

\* the cache of the server as CpuCache::new has built it
BuiltCache == CpuCacheNew(WholeCatalog(IntelCpus), WholeCatalog(AmdCpus))
Alone(input) == CpuCacheFind(BuiltCache, input)

EntryOfName == [cpu \in IntelCpus \cup AmdCpus |-> GenerateIndexEntry(cpu.name, 0).out]
GeneratedFrom(cpu, position) == [EntryOfName[cpu] EXCEPT !.index = position]
\* an index over a catalog: no longer than the catalog, every position
\* inside the catalog, no position twice, every entry the one generated
\* from the name at its position
IndexSound(cpus, index) ==
    /\ Len(index) <= Len(cpus)
    /\ \A k \in 1..Len(index) : index[k].index \in 0..(Len(cpus) - 1)
    /\ \A j, k \in 1..Len(index) : j # k => index[j].index # index[k].index
    /\ \A k \in 1..Len(index) :
        index[k].index \in 0..(Len(cpus) - 1)
            => index[k] = GeneratedFrom(cpus[index[k].index + 1], index[k].index)

\* C17: after CpuCache::new the Intel index and the AMD index have at most
\* as many entries as their catalog, every entry's index field is a
\* position of its own catalog, no two entries of one index have the same
\* position, and the entry with position i was generated from the name of
\* the cpu at position i.
C17_IndexSound ==
    cpu_cache.state = "built" =>
        /\ IndexSound(cpu_cache.intel_cpus, cpu_cache.intel_index)
        /\ IndexSound(cpu_cache.amd_cpus, cpu_cache.amd_index)

\* a cache over two catalogs of two cpus each, all four indexed
C17_Witness ==
    /\ cpu_cache.state = "built"
    /\ Len(cpu_cache.intel_cpus) = 2 /\ Len(cpu_cache.intel_index) = 2
    /\ Len(cpu_cache.amd_cpus) = 2 /\ Len(cpu_cache.amd_index) = 2
    /\ cpu_cache.intel_cpus[1] # cpu_cache.intel_cpus[2]

\* two identifiers alike up to what follows the device id
SameButSubsystem(p, q) ==
    /\ q.head = p.head /\ q.v = p.v /\ q.sep = p.sep /\ q.dtag = p.dtag /\ q.d = p.d
\* the first subsystem of a device whose id is the device id of the identifier
SubsystemByDeviceId(device, d) ==
    IF IsSome(device)
    THEN FirstWhere(Unwrap(device).subsystems, LAMBDA sub : sub.id = ValueOf(d))
    ELSE None
SameAnswer(cache, q, result) ==
    IsOk(PcieParseDeviceIdentifier(IdString(q))) => PcieCacheFind(cache, IdString(q)) = result

\* C18: once the device is found, PcieCache::find returns the first entry
\* of the device's subsystem list whose id equals the device id of the
\* identifier, None if there is none; identifiers that parse and differ
\* only in the digits after SUBSYS_, or in having a SUBSYS segment, get
\* the same result.
C18_SubsystemByDeviceId ==
    IsOk(pcie_result) =>
        /\ pcie_result.out[3] = SubsystemByDeviceId(pcie_result.out[2], pcie_input.d)
        /\ \A q \in PcieQueries :
            SameButSubsystem(pcie_input, q) => SameAnswer(pcie_cache, q, pcie_result)

\* a subsystem is returned for an identifier whose subsystem id is another
C18_Witness ==
    /\ IsOk(pcie_result)
    /\ IsSome(pcie_result.out[3])
    /\ IsSome(pcie_input.ss)
    /\ ValueOf(Unwrap(pcie_input.ss)) # Unwrap(pcie_result.out[3]).id
    /\ Len(Unwrap(pcie_result.out[2]).subsystems) = 2

\* The positions of the two-byte tokens that start with 'i', and the first
\* of these tokens
ITagPositions(tokens) ==
    {k \in 1..Len(tokens) : ByteLen(tokens[k]) = 2 /\ tokens[k][1] = "i"}
FirstITag(tokens) ==
    tokens[CHOOSE k \in ITagPositions(tokens) : \A j \in ITagPositions(tokens) : k <= j]
\* the case of the 14th generation: "Intel" in the input, a selected token
\* starting with "14", and an i-token
Fires14(input, selected) ==
    /\ Contains(input, <<"I", "n", "t", "e", "l">>)
    /\ StartsWith(selected, <<"1", "4">>)
    /\ ITagPositions(TokensOf(input)) # {}
\* a catalog name "... iX processor 14XYZ" as it is reported: "... iX-14XYZ",
\* with the marks of the name as they are or spelled out
Reported14(name) == Replace(name, <<" ", "p", "r", "o", "c", "e", "s", "s", "o", "r", " ", "1", "4">>, <<"-", "1", "4">>)
SpelledOut(name) == Replace(Replace(name, <<"reg">>, <<"(", "R", ")">>), <<"tm">>, <<"(", "T", "M", ")">>)
IsCatalog14(name, selected) ==
    /\ Fires14(name, selected)
    /\ Contains(name, <<" ">> \o FirstITag(TokensOf(name)) \o <<" ", "p", "r", "o", "c", "e", "s", "s", "o", "r", " ">> \o selected)
SameFieldsAs(entry, query) == FieldsOf(entry) = FieldsOf(GenerateIndexEntry(query, 0).out)

\* C19: when the input contains "Intel", the selected token starts with
\* "14" and the input has a two-byte token starting with 'i', find_model
\* returns the first such token, a '-' and the selected token, whatever
\* else the input contains; a catalog name "... iX processor 14XYZ" and
\* the reported name "... iX-14XYZ" get the same model, prefix and suffix.
C19_FourteenthGeneration ==
    /\ (model_found # NotRun /\ Fires14(model_input, model_found.rest))
        => model_found.out = FirstITag(TokensOf(model_input)) \o <<"-">> \o model_found.rest
    /\ (IsOk(model_entry) /\ IsCatalog14(model_input, BestFit(Split(model_input), <<>>, -10)))
        => /\ SameFieldsAs(model_entry.out, Reported14(model_input))
           /\ SameFieldsAs(model_entry.out, SpelledOut(Reported14(model_input)))

\* the case fires on a name that has "AMD" and "PRO" in it as well
C19_Witness ==
    /\ model_found # NotRun
    /\ Fires14(model_input, model_found.rest)
    /\ Contains(model_input, <<"A", "M", "D">>) /\ Contains(model_input, <<"P", "R", "O">>)

\* the entry of a catalog name of the 14th generation
C19_WitnessCatalog ==
    /\ IsOk(model_entry)
    /\ IsCatalog14(model_input, BestFit(Split(model_input), <<>>, -10))
    /\ Contains(model_input, <<"reg">>)

\* a name of the PRO line-up for which the case of the 14th generation
\* does not fire
HasPro(name) == Contains(name, <<"P", "R", "O">>)
IsProName(input, selected) ==
    /\ Contains(input, <<"A", "M", "D">>)
    /\ HasPro(input)
    /\ ~Fires14(input, selected)
ProToken(selected) == <<"P", "R", "O", " ">> \o selected
\* no entry of the index that stands for a cpu without "PRO" in its name
\* has the model field of the query
NoModelOfOthers(cpus, index, query) ==
    \A k \in 1..Len(index) : ~HasPro(cpus[index[k].index + 1].name) => index[k].model # query.model
ProFound(self, input, result, selected) ==
    /\ FindModel(input) = ProToken(selected)
    /\ NoModelOfOthers(self.amd_cpus, self.amd_index, GenerateIndexEntry(input, 0).out)
    /\ IsOk(result) => HasPro(result.out.name)

\* C20: for an input that contains "AMD" and "PRO" and on which the case
\* of the 14th generation does not fire, find_model returns "PRO " and the
\* selected token, whatever else the input contains; in find no entry of a
\* cpu without "PRO" in its name has the model field of such a query, and
\* the cpu found, if any, has "PRO" in its name.
C20_ProLineUp ==
    /\ (model_found # NotRun /\ IsProName(model_input, model_found.rest))
        => model_found.out = ProToken(model_found.rest)
    /\ (cpu_result # NotRun /\ IsProName(cpu_input, BestFit(Split(cpu_input), <<>>, -10)))
        => ProFound(cpu_cache, cpu_input, cpu_result, BestFit(Split(cpu_input), <<>>, -10))

\* the PRO cpu is found in a catalog that has the cpu of the same number
\* without PRO before it
C20_Witness ==
    /\ IsOk(cpu_result)
    /\ HasPro(cpu_input)
    /\ Len(cpu_cache.amd_cpus) = 2
    /\ ~HasPro(cpu_cache.amd_cpus[1].name)
    /\ Contains(cpu_cache.amd_cpus[1].name, <<"4", "6", "5", "0", "G">>)
    /\ cpu_result.out.name = cpu_cache.amd_cpus[2].name

\* find_model on a PRO name that has all of the case of the M processors
C20_WitnessModel ==
    /\ model_found # NotRun
    /\ IsProName(model_input, model_found.rest)
    /\ Contains(model_input, <<" ", "M", " ">>)
    /\ Contains(model_input, <<"I", "n", "t", "e", "l">>)
    /\ ByteLen(model_found.rest) = 3
    /\ ITagPositions(TokensOf(model_input)) # {}

\* the case of the M processors: "Intel" and " M " in the input, a selected
\* token of three bytes, and neither of the cases before it
IsMName(input, selected) ==
    /\ Contains(input, <<"I", "n", "t", "e", "l">>)
    /\ Contains(input, <<" ", "M", " ">>)
    /\ ByteLen(selected) = 3
    /\ ~Fires14(input, selected)
    /\ ~(Contains(input, <<"A", "M", "D">>) /\ HasPro(input))
MToken(input, selected) ==
    IF ITagPositions(TokensOf(input)) # {}
    THEN FirstITag(TokensOf(input)) \o <<"-">> \o selected \o <<"M">>
    ELSE selected
\* the catalog name of the M processor a reported name stands for
CatalogM(input, selected) ==
    <<"I", "n", "t", "e", "l", "reg", " ", "C", "o", "r", "e", "tm", " ">>
        \o FirstITag(TokensOf(input)) \o <<"-">> \o selected
        \o <<"M", " ", "P", "r", "o", "c", "e", "s", "s", "o", "r">>
IsReportedM(input, selected) ==
    /\ IsMName(input, selected)
    /\ ITagPositions(TokensOf(input)) # {}
    /\ \A i \in 1..Len(selected) : IsAsciiDigit(selected[i])

\* C21: when the input contains "Intel" and " M ", the selected token has
\* three bytes and neither the case of the 14th generation nor the one of
\* the PRO line-up fired, find_model returns the first two-byte token
\* starting with 'i', a '-', the selected token and "M", and the selected
\* token as it is when there is no such token; the reported name
\* "... iX CPU M NNN ..." and the catalog name "... iX-NNNM Processor" get
\* the same model, prefix and suffix.
C21_MProcessors ==
    /\ (model_found # NotRun /\ IsMName(model_input, model_found.rest))
        => model_found.out = MToken(model_input, model_found.rest)
    /\ (IsOk(model_entry) /\ IsReportedM(model_input, BestFit(Split(model_input), <<>>, -10)))
        => SameFieldsAs(model_entry.out,
                        CatalogM(model_input, BestFit(Split(model_input), <<>>, -10)))

\* the reported name of the i7-620M with its entry
C21_Witness ==
    /\ model_found # NotRun
    /\ IsOk(model_entry)
    /\ IsReportedM(model_input, model_found.rest)
    /\ model_found.out = <<"i", "7", "-", "6", "2", "0", "M">>
    /\ model_entry.out.model = <<"i", "7">>

\* the case without a token starting with 'i'
C21_WitnessNoITag ==
    /\ model_found # NotRun
    /\ IsMName(model_input, model_found.rest)
    /\ ITagPositions(TokensOf(model_input)) = {}
    /\ model_found.out = <<"9", "0", "0">>

\* The words of a name: its longest runs of characters other than spaces
IsWordAt(name, i, j) ==
    /\ \A k \in i..j : name[k] # " "
    /\ i = 1 \/ name[i - 1] = " "
    /\ j = Len(name) \/ name[j + 1] = " "
WordsOf(name) ==
    {SubSeq(name, i, j) : <<i, j>> \in {p \in (1..Len(name)) \X (1..Len(name)) :
                                           p[1] <= p[2] /\ IsWordAt(name, p[1], p[2])}}
RuleTags(name) ==
    WordsOf(name) \ {<<"I", "n", "t", "e", "l">>, <<"A", "M", "D">>,
                     <<"P", "r", "o", "c", "e", "s", "s", "o", "r">>, name}

\* C22: the tags of the entry generate_index_entry returns are the set of
\* the words of the name, without "Intel", "AMD", "Processor" and without
\* a word that is the whole name; none of them is the empty string.
C22_TagsAreTheWords ==
    IsOk(model_entry) =>
        /\ model_entry.out.tags = RuleTags(model_input)
        /\ <<>> \notin model_entry.out.tags

\* The vendors a text of the grammar states: every vendor with its name and,
\* under their ids, its devices with their names and subsystems
DevicesStated(devices) ==
    [id \in Ids(devices) |-> CHOOSE d \in {devices[j] : j \in 1..Len(devices)} : d.id = id]
VendorStated(vendor) ==
    [id |-> vendor.id, name |-> vendor.name, devices |-> DevicesStated(vendor.devices)]
VendorsStated(lines) ==
    [id \in Ids(lines) |->
        VendorStated(CHOOSE v \in {lines[i] : i \in 1..Len(lines)} : v.id = id)]
HasComment(text) == Contains(text, <<"#", " ", "c">>)
EndsInComment(text) == text[Len(text)] # "\n"

\* C23: a comment line between the records of the PCI-ID text, at vendor,
\* device or subsystem level, one or several in a row, or as the last line
\* of the text, loses no record: the cache built from the text holds every
\* vendor, device and subsystem of the text, each under the vendor and the
\* device it is written under.
C23_CommentsLoseNothing ==
    (pcie_cache.state # "none" /\ pci_fault = NoFault /\ HasComment(pci_text)) =>
        /\ pcie_cache.state = "built"
        /\ pcie_cache.vendors = VendorsStated(pci_lines)

\* the same for the texts every line of which ends with a newline
C23_TerminatedCommentsLoseNothing ==
    (pcie_cache.state # "none" /\ pci_fault = NoFault /\ HasComment(pci_text)
        /\ ~EndsInComment(pci_text)) =>
        /\ pcie_cache.state = "built"
        /\ pcie_cache.vendors = VendorsStated(pci_lines)

\* C24: when a vendor, device or subsystem line of the PCI-ID text has a
\* malformed required field, a non-hex id or a missing delimiter, building
\* the database does not return successfully: PcieCache::new fails.
C24_MalformedLineFailsTheBuild ==
    (pcie_cache.state # "none" /\ pci_fault # NoFault) => pcie_cache.state = "panic"

\* C25: a comment line of the USB-ID text is skipped up to the end of that
\* line only: the cache built from the text holds every vendor of the text
\* with the devices written in its block, a vendor line after a comment
\* being a vendor of its own, and no device under another vendor.
C25_UsbCommentsSkippedByLine ==
    (usb_cache.state # "none" /\ HasComment(usb_text)) =>
        /\ usb_cache.state = "built"
        /\ usb_cache.vendors = usb_lines


\* C26: read_record on a well-formed table row returns the numeric value of
\* the row's hexadecimal literal as the code, the name of the link with
\* every backslash removed, the documentation base followed by the link's
\* file name without ".md" as the url, and as remaining input the text
\* right after the row's newline, which is empty for the last row.
WithoutBackslashes(name) == SelectSeq(name, LAMBDA c : c # "\\")
C26_ReadRecordFields ==
    record_result # NotRun =>
        /\ record_result.kind = "Ok"
        /\ record_result.out.code = record_input.code.value
        /\ record_result.out.name = WithoutBackslashes(record_input.name)
        /\ record_result.out.url = DocsBase \o record_input.link
        /\ record_result.rest = record_input.following
C26_Witness ==
    /\ record_result # NotRun
    /\ record_result.kind = "Ok"
    /\ record_input.name = <<"A", "\\", "_", "B", "\\", "_", "C">>
    /\ record_result.out.name = <<"A", "_", "B", "_", "C">>
    /\ record_input.following # <<>>
C26_WitnessLastRow ==
    /\ record_result # NotRun
    /\ record_result.kind = "Ok"
    /\ record_input.following = <<>>
    /\ record_result.rest = <<>>
    /\ record_result.out.code = 2147483647


-----------------------------------------------------------------------------
(* Claims about the Intel catalog *)

\* the attribute rows of the file, of every section, in the order written
RECURSIVE CsvAllRows(_)
CsvAllRows(sections) ==
    IF sections = <<>> THEN <<>> ELSE sections[1].rows \o CsvAllRows(Tail(sections))
\* every row has a cell for every cpu name
CsvRowsFull(names, rows) == \A r \in 1..Len(rows) : Len(rows[r].cells) = Len(names)
\* the attributes the rows state for the cpu of column i
StatedAttributes(rows, i) ==
    LET stating == {r \in 1..Len(rows) : rows[r].cells[i] # <<>>}
    IN [label \in {rows[r].label : r \in stating} |->
            rows[CHOOSE r \in stating : rows[r].label = label].cells[i]]
StatedCpus(names, rows) ==
    [i \in 1..Len(names) |-> [name |-> names[i], attributes |-> StatedAttributes(rows, i)]]

\* C27: parse_csv returns exactly one Cpu per name of the row of cpu names,
\* in the order of the names, and the Cpu of a column has an attribute for
\* every attribute row of every section whose cell in that column is not
\* empty, keyed by the first cell of the row, and no other attribute.
C27_OneCpuPerNameWithEveryRow ==
    (csv_parsed # NotRun /\ CsvRowsFull(csv_names, CsvAllRows(csv_sections))) =>
        /\ csv_parsed.kind = "Ok"
        /\ csv_parsed.out = StatedCpus(csv_names, CsvAllRows(csv_sections))
\* the part of it that is about the names alone
C27_OneCpuPerName ==
    (csv_parsed # NotRun /\ CsvRowsFull(csv_names, CsvAllRows(csv_sections))) =>
        /\ csv_parsed.kind = "Ok"
        /\ Len(csv_parsed.out) = Len(csv_names)
        /\ \A i \in 1..Len(csv_names) : csv_parsed.out[i].name = csv_names[i]


\* C28: read_section discards the heading line of the section and returns
\* the attribute rows of the section, with the text after the section's
\* blank line as the rest; for the last section of a file, which no blank
\* line ends, the rows are returned as well, the heading discarded, and
\* the rest is empty.
C28_SectionWithoutHeading ==
    csv_section.section # 0 =>
        /\ csv_section.result.kind = "Ok"
        /\ csv_section.result.out = CsvRowsText(csv_sections[csv_section.section].rows)
        /\ csv_section.result.rest = CsvTextFrom(csv_sections, csv_section.section + 1)
\* the same for the sections that a blank line ends
C28_ClosedSectionWithoutHeading ==
    (csv_section.section # 0 /\ csv_sections[csv_section.section].closed) =>
        /\ csv_section.result.kind = "Ok"
        /\ csv_section.result.out = CsvRowsText(csv_sections[csv_section.section].rows)
        /\ csv_section.result.rest = CsvTextFrom(csv_sections, csv_section.section + 1)


\* every record the lexer returned has a cell in the column of cpu i
CsvColumnMaps(records, i) == \A r \in 1..Len(records) : Len(records[r]) >= i + 1

\* C29: when the attribute rows cannot be mapped to the column of one cpu,
\* a row having fewer cells than there are names, parse_csv leaves out that
\* cpu alone and returns the cpus of the other columns, and the load of the
\* catalog neither fails nor panics.
C29_UnmappedColumnOmitted ==
    /\ csv_parsed # NotRun =>
        /\ csv_parsed.kind = "Ok"
        /\ \A i \in 1..Len(csv_names) :
            CsvColumnMaps(csv_lexed.out.records, i) =>
                \E c \in 1..Len(csv_parsed.out) : csv_parsed.out[c].name = csv_names[i]
    /\ csv_loaded # NotRun => csv_loaded.kind = "Ok"


-----------------------------------------------------------------------------
(* Claims about the loops of the parsers *)

\* C30: every loop of the database parsers (parse_pcie_db with the loops of
\* read_vendor and read_device, parse_usb_db with the loop of read_vendor,
\* the loop of CodeCache::new, the two loops of lex_csv) is left after
\* finitely many passes, on every input.
C30_EveryLoopIsLeft == (loop_name # "none") ~> loop_done
\* every pass through a loop, the skip of a comment included, leaves the
\* loop or goes on with a shorter input
C30_EveryPassConsumes ==
    [][loop_name # "none" => (loop_done' \/ Len(loop_rest') < Len(loop_rest))]_vars
\* a loop left after it has read the whole of a text with a comment in it
C30_Witness ==
    /\ loop_done
    /\ loop_name \in {"pcie::read_vendor", "usb::read_vendor"}
    /\ Contains(loop_input, <<"#">>)
    /\ Contains(loop_input, <<"\t", "0", "0", "0", "2">>)
    /\ loop_rest = <<>>
C30_WitnessSections ==
    /\ loop_done
    /\ loop_name = "lex_csv: sections"
    /\ loop_passes = 2
    /\ loop_rest # <<>>
\* no loop is stopped by the bound on the passes
C30_BoundNotReached ==
    (loop_name # "none" /\ ~loop_done) => loop_passes <= 2 * MaxLoopLines

=============================================================================
